---------------------------- MODULE Spec2Model ----------------------------
(* A model of the FXT trace writer (free-function API of src/src/writer.cpp,   *)
(* lines 1..1449): the two intern tables with their 16-bit counters, the       *)
(* byte-sink adapter, the argument encoder and the record encoders; of the     *)
(* member form of the API (lines 1451..1857), Writer::AddProviderEventRecord.  *)
(*                                                                             *)
(* Strings are natural numbers (the identity of a byte content); strlen gives  *)
(* a string's byte length.  A header word is a record of its bit fields, each  *)
(* field masked to its width as Field::Make does.  The sink log of an          *)
(* operation is the sequence of writeFunc calls it made.                       *)
EXTENDS Integers, Sequences, FiniteSets, TLC

VARIABLES
    \* the writer
    stringTable, threadTable, nextStringIndex, nextThreadIndex,
    \* the reader of the stream: what each handle is bound to, records seen
    strBinding, thrBinding, numStringRecords, numThreadRecords,
    \* the history: the intern calls so far and the operations of the run
    strHist, thrHist, calls,
    \* two more writers, each with a sink of its own, whose operations
    \* interleave call by call of their sinks
    writers

vars == <<stringTable, threadTable, nextStringIndex, nextThreadIndex,
          strBinding, thrBinding, numStringRecords, numThreadRecords,
          strHist, thrHist, calls, writers>>

-----------------------------------------------------------------------------
(* Bounds of the model.                                                        *)

\* Number of operations explored after the warm-up of Init.
MaxOps == 2

\* Number of operations explored from a constructed writer by the
\* specification of the record encoders.
MaxEncOps == 1

\* Number of operations of each of the two writers that run interleaved.
MaxTwoOps == 2

-----------------------------------------------------------------------------
(* Program constants.                                                          *)

StringTableSize == 512
ThreadTableSize == 128
UInt16Mod == 65536

FXT_MAX_NUM_ARGS == 15
MaxInlineStrLen == 32767
kMaxRecordSizeWords == 4095
kMaxNameLength == 255
kMaxBlobLength == 8388607
MaxStringRecordPaddedLen == 32767
HexBufferSize == 256
InlineBit == 32768

FXT_ERR_WRITE_TO_STREAM_FAILED == -3000
FXT_ERR_STR_TOO_LONG == -3001
FXT_ERR_WRITE_LENGTH_MISMATCH == -3002
FXT_ERR_DATA_TOO_LONG == -3003
FXT_ERR_INVALID_OUTGOING_THREAD_STATE == -3004
FXT_ERR_RECORD_SIZE_TOO_LARGE == -3005
FXT_ERR_INVALID_ARG_TYPE == -3006
FXT_ERR_ARG_NAME_TOO_LONG == -3007
FXT_ERR_ARG_STR_VALUE_TOO_LONG == -3008
FXT_ERR_TOO_MANY_ARGS == -3009

\* RecordType
RT_Metadata == 0
RT_Initialization == 1
RT_String == 2
RT_Thread == 3
RT_Event == 4
RT_Blob == 5
RT_UserspaceObject == 6
RT_KernelObject == 7
RT_Scheduling == 8

\* MetadataType
MT_ProviderInfo == 1
MT_ProviderSection == 2
MT_ProviderEvent == 3

\* ArgumentType
AT_Null == 0
AT_Int32 == 1
AT_UInt32 == 2
AT_Int64 == 3
AT_UInt64 == 4
AT_Double == 5
AT_String == 6
AT_Pointer == 7
AT_KOID == 8
AT_Bool == 9

\* EventType
ET_Instant == 0
ET_Counter == 1
ET_DurationBegin == 2
ET_DurationEnd == 3
ET_DurationComplete == 4
ET_AsyncBegin == 5
ET_AsyncInstant == 6
ET_AsyncEnd == 7
ET_FlowBegin == 8
ET_FlowStep == 9
ET_FlowEnd == 10

\* KOIDType
KT_Process == 1
KT_Thread == 2

\* SchedulingRecordType
ST_ContextSwitch == 1
ST_ThreadWakeup == 2
ST_FiberSwitch == 3

-----------------------------------------------------------------------------
(* Values.                                                                     *)

\* Strings whose identity is LongBase + n have byte length n; the others have
\* a short length.  Two strings are equal iff their identities are.
LongBase == 100000

strlen(str) == IF str >= LongBase THEN str - LongBase ELSE str % 8

\* The content hash.  XXH3 is an external library; its collisions are outside
\* this model (the design accepts them), so the hash is one-to-one here.
XXH3_64bits(str) == 2 * str + 1

\* The i-th thread of the model: thread i \div 2 of process 1 + i % 2, so that
\* threads 2j and 2j + 1 have the same thread id under two process ids.
PairOf(i) == [pid |-> 1 + (i % 2), tid |-> i \div 2]
IndexOf(pid, tid) == 2 * tid + (pid - 1)

\* The hash of the 16 bytes processID, threadID, one-to-one as well.
XXH3_pair(processID, threadID) == processID * UInt16Mod + threadID

\* An unbound handle in the reader's view, an output that was never written.
Unbound == -1
Unset == -1

\* size + 8 - 1 & -8
Pad8(n) == ((n + 7) \div 8) * 8

\* 2^n for the field widths in use.
RECURSIVE Pow2(_)
Pow2(n) == IF n = 0 THEN 1 ELSE 2 * Pow2(n - 1)

\* Field<begin, end>::Make(value): the value masked to the field's width.  The
\* values of the model are below 2^30, so a field of 31 bits or more holds
\* them unchanged.
Make(value, begin, end) ==
    IF end - begin + 1 >= 31 THEN value ELSE value % Pow2(end - begin + 1)

\* StringRefFieldNames::Inline(strLen): (uint16_t)0x8000 | (uint16_t)strLen
Inline(strLen) ==
    LET s == strLen % UInt16Mod
    IN  IF s >= InlineBit THEN s ELSE InlineBit + s

-----------------------------------------------------------------------------
(* The byte-sink adapter.  A machine m is the writer (its two tables and two   *)
(* counters) together with the sink: log is the sequence of writeFunc calls of *)
(* the current operation, failAt the number of the call that the sink fails    *)
(* (0: none) and err the non-zero value it returns then.  ub is what the build *)
(* does on a write past the end of a local array and uninit is the value an    *)
(* uninitialised uint16_t local holds.  An operation results in [m, ret]: the  *)
(* machine it leaves and the int it returns.                                   *)

writeFunc(m, kind, len, val) ==
    LET n == Len(m.log) + 1
        r == IF n = m.failAt THEN m.err ELSE 0
    IN  [m   |-> [m EXCEPT !.log = Append(@, [kind |-> kind, len |-> len,
                                               val |-> val, ret |-> r])],
         ret |-> r]

WriteUInt64ToStream(m, val) == writeFunc(m, "word", 8, val)

WriteBytesToStream(m, val, len) == writeFunc(m, "bytes", len, val)

RECURSIVE WriteZeroPadding(_, _)
WriteZeroPadding(m, count) ==
    IF count = 0 THEN [m |-> m, ret |-> 0]
    ELSE LET r == writeFunc(m, "zero", 1, [w |-> "zero"])
         IN  IF r.ret # 0 THEN r ELSE WriteZeroPadding(r.m, count - 1)

\* A payload word that is not a header.
Data(x) == [w |-> "data", u64 |-> x]

\* The calls an operation makes on the stream, as values: a 64-bit word, len
\* bytes, count bytes of zero padding (none if count is 0), and the store of
\* two hex digits past the end of the staging buffer of WriteArg.
UInt64(val) == [f |-> "WriteUInt64ToStream", val |-> val, len |-> 8]
Bytes(val, len) == [f |-> "WriteBytesToStream", val |-> val, len |-> len]
ZeroPadding(count) == [f |-> "WriteZeroPadding", val |-> 0, len |-> count]
StorePastBuffer == [f |-> "StorePastBuffer", val |-> 0, len |-> 0]

\* The result of an operation that the build's handling of undefined
\* behaviour ended before it returned.
ProcessAborted == 1000000

WriteToStream(m, c) ==
    IF c.f = "WriteUInt64ToStream" THEN WriteUInt64ToStream(m, c.val)
    ELSE IF c.f = "WriteBytesToStream" THEN WriteBytesToStream(m, c.val, c.len)
    ELSE IF c.f = "WriteZeroPadding" THEN WriteZeroPadding(m, c.len)
    ELSE [m |-> m, ret |-> IF m.ub = "abort" THEN ProcessAborted ELSE 0]

\* "ret = Write...(writer, ...); if (ret != 0) { return ret; }" for the calls
\* lo..hi of a sequence, in order: the first half, then, unless a call of it
\* failed, the second half.
RECURSIVE WriteRange(_, _, _, _)
WriteRange(m, writes, lo, hi) ==
    IF hi < lo THEN [m |-> m, ret |-> 0]
    ELSE IF hi = lo THEN WriteToStream(m, writes[lo])
    ELSE LET mid == (lo + hi) \div 2
             left == WriteRange(m, writes, lo, mid)
         IN  IF left.ret # 0 THEN left
             ELSE WriteRange(left.m, writes, mid + 1, hi)

WriteInOrder(m, writes) == WriteRange(m, writes, 1, Len(writes))

\* An operation that fails with r's code leaves r's machine.
Return(r) == [m |-> r.m, ret |-> r.ret]

-----------------------------------------------------------------------------
(* String interning.                                                           *)

AddStringRecord(m, stringIndex, str, strLen) ==
    LET paddedStrLen == Pad8(strLen)
        diff == paddedStrLen - strLen
        sizeInWords == 1 + (paddedStrLen \div 8)
        header == [w |-> "record",
                   Type |-> Make(RT_String, 0, 3),
                   RecordSize |-> Make(sizeInWords, 4, 15),
                   StringIndex |-> Make(stringIndex, 16, 30),
                   StringLength |-> Make(strLen, 32, 46)]
    IN  IF paddedStrLen >= MaxStringRecordPaddedLen
        THEN [m |-> m, ret |-> FXT_ERR_STR_TOO_LONG]
        ELSE WriteInOrder(m, <<UInt64(header),
                               Bytes([w |-> "str", str |-> str], strLen),
                               ZeroPadding(diff)>>)

\* The least element of a non-empty set of slots: the first match of the probe.
FirstOf(S) == CHOOSE i \in S : \A j \in S : i <= j

\* The store with a seeded fault: the counter is not incremented.
StoreString_NoIncrement(r, index, hash) ==
    IF r.ret # 0 THEN [m |-> r.m, ret |-> r.ret, out |-> Unset]
    ELSE [m |-> [r.m EXCEPT !.stringTable[index] = hash],
          ret |-> 0, out |-> index + 1]

\* GetOrCreateStringIndex after AddStringRecord resulted in r: the return of
\* its failure, or the store of the hash in the slot.
\* The store with a seeded fault: the slot and the counter are written when
\* the sink has failed, too.
StoreString_OnFailure(r, index, hash) ==
    [m |-> [r.m EXCEPT !.stringTable[index] = hash,
                       !.nextStringIndex = (@ + 1) % UInt16Mod],
     ret |-> r.ret, out |-> IF r.ret # 0 THEN Unset ELSE index + 1]

StoreString(r, index, hash) ==
    IF r.ret # 0 THEN [m |-> r.m, ret |-> r.ret, out |-> Unset]
    ELSE [m |-> [r.m EXCEPT !.stringTable[index] = hash,
                            !.nextStringIndex = (@ + 1) % UInt16Mod],
          ret |-> 0, out |-> index + 1]

\* GetOrCreateStringIndex with a seeded fault: a probe that matches slot i
\* answers i, not i + 1.
GetOrCreateStringIndex_HitIsSlot(m, str, strLen) ==
    LET hash == XXH3_64bits(str)
        max == IF m.nextStringIndex > StringTableSize
               THEN StringTableSize ELSE m.nextStringIndex
        found == {i \in 0..(max - 1) : m.stringTable[i] = hash}
        index == m.nextStringIndex % StringTableSize
    IN  IF found # {}
        THEN [m |-> m, ret |-> 0, out |-> FirstOf(found)]
        ELSE StoreString(AddStringRecord(m, index + 1, str, strLen), index, hash)

GetOrCreateStringIndexLen(m, str, strLen) ==
    LET hash == XXH3_64bits(str)
        max == IF m.nextStringIndex > StringTableSize
               THEN StringTableSize ELSE m.nextStringIndex
        found == {i \in 0..(max - 1) : m.stringTable[i] = hash}
        index == m.nextStringIndex % StringTableSize
    IN  IF found # {}
        THEN [m |-> m, ret |-> 0, out |-> FirstOf(found) + 1]
        ELSE StoreString(AddStringRecord(m, index + 1, str, strLen), index, hash)

GetOrCreateStringIndex(m, str) == GetOrCreateStringIndexLen(m, str, strlen(str))

-----------------------------------------------------------------------------
(* Thread interning.                                                           *)

AddThreadRecord(m, threadIndex, processID, threadID) ==
    LET sizeInWords == 3
        header == [w |-> "record",
                   Type |-> Make(RT_Thread, 0, 3),
                   RecordSize |-> Make(sizeInWords, 4, 15),
                   ThreadIndex |-> Make(threadIndex, 16, 23)]
    IN  WriteInOrder(m, <<UInt64(header), UInt64(Data(processID)),
                          UInt64(Data(threadID))>>)

\* The store with a seeded fault: the counter is not incremented.
StoreThread_NoIncrement(r, index, hash) ==
    IF r.ret # 0 THEN [m |-> r.m, ret |-> r.ret, out |-> Unset]
    ELSE [m |-> [r.m EXCEPT !.threadTable[index] = hash],
          ret |-> 0, out |-> index + 1]

\* GetOrCreateThreadIndex after AddThreadRecord resulted in r.
StoreThread(r, index, hash) ==
    IF r.ret # 0 THEN [m |-> r.m, ret |-> r.ret, out |-> Unset]
    ELSE [m |-> [r.m EXCEPT !.threadTable[index] = hash,
                            !.nextThreadIndex = (@ + 1) % UInt16Mod],
          ret |-> 0, out |-> index + 1]

\* GetOrCreateThreadIndex with a seeded fault: a probe that matches slot i
\* answers i, not i + 1.
GetOrCreateThreadIndex_HitIsSlot(m, processID, threadID) ==
    LET hash == XXH3_pair(processID, threadID)
        max == IF m.nextThreadIndex > ThreadTableSize
               THEN ThreadTableSize ELSE m.nextThreadIndex
        found == {i \in 0..(max - 1) : m.threadTable[i] = hash}
        index == m.nextThreadIndex % ThreadTableSize
    IN  IF found # {}
        THEN [m |-> m, ret |-> 0, out |-> FirstOf(found)]
        ELSE StoreThread(AddThreadRecord(m, index + 1, processID, threadID),
                         index, hash)

GetOrCreateThreadIndex(m, processID, threadID) ==
    LET hash == XXH3_pair(processID, threadID)
        max == IF m.nextThreadIndex > ThreadTableSize
               THEN ThreadTableSize ELSE m.nextThreadIndex
        found == {i \in 0..(max - 1) : m.threadTable[i] = hash}
        index == m.nextThreadIndex % ThreadTableSize
    IN  IF found # {}
        THEN [m |-> m, ret |-> 0, out |-> FirstOf(found) + 1]
        ELSE StoreThread(AddThreadRecord(m, index + 1, processID, threadID),
                         index, hash)

-----------------------------------------------------------------------------
(* Arguments.  An argument is [name |-> [name, nameLen, useStringTable],       *)
(* value |-> [type, val, stringValue, stringLen, useStringTable, hexEncode]].  *)

OneWordTypes == {AT_Null, AT_Int32, AT_UInt32, AT_Bool}
TwoWordTypes == {AT_Int64, AT_UInt64, AT_Double, AT_Pointer, AT_KOID}

\* The name of an argument after GetOrCreateStringIndex resulted in r.
IndexedName(r) ==
    [m |-> r.m, ret |-> r.ret, nameStringRef |-> r.out, nameSizeInWords |-> 0]

\* The name with a seeded fault: a name of exactly 0x7FFF bytes is rejected.
ProcessArgName_LimitOff(m, name) ==
    IF name.useStringTable
    THEN IndexedName(GetOrCreateStringIndexLen(m, name.name, name.nameLen))
    ELSE IF name.nameLen >= MaxInlineStrLen
    THEN [m |-> m, ret |-> FXT_ERR_ARG_NAME_TOO_LONG,
          nameStringRef |-> Unset, nameSizeInWords |-> Unset]
    ELSE [m |-> m, ret |-> 0,
          nameStringRef |-> Inline(name.nameLen),
          nameSizeInWords |-> (Pad8(name.nameLen) \div 8) % UInt16Mod]

\* ProcessArgs, "First we process the name".
ProcessArgName(m, name) ==
    IF name.useStringTable
    THEN IndexedName(GetOrCreateStringIndexLen(m, name.name, name.nameLen))
    ELSE IF name.nameLen > MaxInlineStrLen
    THEN [m |-> m, ret |-> FXT_ERR_ARG_NAME_TOO_LONG,
          nameStringRef |-> Unset, nameSizeInWords |-> Unset]
    ELSE [m |-> m, ret |-> 0,
          nameStringRef |-> Inline(name.nameLen),
          nameSizeInWords |-> (Pad8(name.nameLen) \div 8) % UInt16Mod]

\* The value of a String argument after GetOrCreateStringIndex resulted in r.
IndexedValue(r) ==
    [m |-> r.m, ret |-> r.ret, valueStringRef |-> r.out,
     headerAndValueSizeInWords |-> 1]

\* The value with a seeded fault: the limit of a hex-encoded value is tested
\* on the length of the input, not on the encoded length.
ProcessArgValue_HexLimitOnInput(m, value) ==
    IF value.type \in OneWordTypes
    THEN [m |-> m, ret |-> 0, valueStringRef |-> Unset,
          headerAndValueSizeInWords |-> 1]
    ELSE IF value.type \in TwoWordTypes
    THEN [m |-> m, ret |-> 0, valueStringRef |-> Unset,
          headerAndValueSizeInWords |-> 2]
    ELSE IF value.type # AT_String
    THEN [m |-> m, ret |-> 0, valueStringRef |-> Unset,
          headerAndValueSizeInWords |-> m.uninit]
    ELSE IF value.hexEncode
    THEN LET encodedLen == value.stringLen * 2
         IN  IF value.stringLen > MaxInlineStrLen
             THEN [m |-> m, ret |-> FXT_ERR_ARG_STR_VALUE_TOO_LONG,
                   valueStringRef |-> Unset, headerAndValueSizeInWords |-> Unset]
             ELSE [m |-> m, ret |-> 0,
                   valueStringRef |-> Inline(encodedLen),
                   headerAndValueSizeInWords |->
                       (1 + Pad8(encodedLen) \div 8) % UInt16Mod]
    ELSE IF value.useStringTable
    THEN IndexedValue(GetOrCreateStringIndexLen(m, value.stringValue,
                                                value.stringLen))
    ELSE IF value.stringLen > MaxInlineStrLen
    THEN [m |-> m, ret |-> FXT_ERR_ARG_STR_VALUE_TOO_LONG,
          valueStringRef |-> Unset, headerAndValueSizeInWords |-> Unset]
    ELSE [m |-> m, ret |-> 0,
          valueStringRef |-> Inline(value.stringLen),
          headerAndValueSizeInWords |->
              (1 + Pad8(value.stringLen) \div 8) % UInt16Mod]

\* ProcessArgs, "Then we process the value".  The switch has no default: for
\* a type outside the enumeration headerAndValueSizeInWords keeps the value
\* the caller's uninitialised array held.
ProcessArgValue(m, value) ==
    IF value.type \in OneWordTypes
    THEN [m |-> m, ret |-> 0, valueStringRef |-> Unset,
          headerAndValueSizeInWords |-> 1]
    ELSE IF value.type \in TwoWordTypes
    THEN [m |-> m, ret |-> 0, valueStringRef |-> Unset,
          headerAndValueSizeInWords |-> 2]
    ELSE IF value.type # AT_String
    THEN [m |-> m, ret |-> 0, valueStringRef |-> Unset,
          headerAndValueSizeInWords |-> m.uninit]
    ELSE IF value.hexEncode
    THEN LET encodedLen == value.stringLen * 2
         IN  IF encodedLen > MaxInlineStrLen
             THEN [m |-> m, ret |-> FXT_ERR_ARG_STR_VALUE_TOO_LONG,
                   valueStringRef |-> Unset, headerAndValueSizeInWords |-> Unset]
             ELSE [m |-> m, ret |-> 0,
                   valueStringRef |-> Inline(encodedLen),
                   headerAndValueSizeInWords |->
                       (1 + Pad8(encodedLen) \div 8) % UInt16Mod]
    ELSE IF value.useStringTable
    THEN IndexedValue(GetOrCreateStringIndexLen(m, value.stringValue,
                                                value.stringLen))
    ELSE IF value.stringLen > MaxInlineStrLen
    THEN [m |-> m, ret |-> FXT_ERR_ARG_STR_VALUE_TOO_LONG,
          valueStringRef |-> Unset, headerAndValueSizeInWords |-> Unset]
    ELSE [m |-> m, ret |-> 0,
          valueStringRef |-> Inline(value.stringLen),
          headerAndValueSizeInWords |->
              (1 + Pad8(value.stringLen) \div 8) % UInt16Mod]

\* The loop of ProcessArgs from argument i on, processedArgs[1..i-1] being
\* filled; it returns at the first failure.  ProcessArgsName is the loop
\* after the name of argument i resulted in n, ProcessArgsValue after its
\* value resulted in v.
RECURSIVE ProcessArgsFrom(_, _, _, _)
RECURSIVE ProcessArgsName(_, _, _, _)
RECURSIVE ProcessArgsValue(_, _, _, _, _)

ProcessArgsValue(n, v, args, i, processedArgs) ==
    IF v.ret # 0
    THEN [m |-> v.m, ret |-> v.ret, processedArgs |-> processedArgs]
    ELSE ProcessArgsFrom(v.m, args, i + 1,
             Append(processedArgs,
                    [nameStringRef |-> n.nameStringRef,
                     nameSizeInWords |-> n.nameSizeInWords,
                     valueStringRef |-> v.valueStringRef,
                     headerAndValueSizeInWords |-> v.headerAndValueSizeInWords]))

ProcessArgsName(n, args, i, processedArgs) ==
    IF n.ret # 0
    THEN [m |-> n.m, ret |-> n.ret, processedArgs |-> processedArgs]
    ELSE ProcessArgsValue(n, ProcessArgValue(n.m, args[i].value), args, i,
                          processedArgs)

ProcessArgsFrom(m, args, i, processedArgs) ==
    IF i > Len(args)
    THEN [m |-> m, ret |-> 0, processedArgs |-> processedArgs]
    ELSE ProcessArgsName(ProcessArgName(m, args[i].name), args, i, processedArgs)

ProcessArgs(m, args) == ProcessArgsFrom(m, args, 1, <<>>)

\* "Add up the argument word size"
RECURSIVE ArgumentSizeInWords(_, _)
ArgumentSizeInWords(processedArgs, n) ==
    IF n = 0 THEN 0
    ELSE ArgumentSizeInWords(processedArgs, n - 1)
         + processedArgs[n].nameSizeInWords
         + processedArgs[n].headerAndValueSizeInWords

\* The header word of an argument, by its bit fields; the bits a type does
\* not set are 0.
ArgHeader(arg, p, sizeInWords) ==
    [w |-> "arg",
     Type |-> Make(arg.value.type, 0, 3),
     ArgumentSize |-> Make(sizeInWords, 4, 15),
     NameRef |-> Make(p.nameStringRef, 16, 31),
     ValueRef |-> IF arg.value.type = AT_String
                  THEN Make(p.valueStringRef, 32, 47) ELSE 0,
     Value |-> IF arg.value.type \in {AT_Int32, AT_UInt32}
               THEN Make(arg.value.val, 32, 63)
               ELSE IF arg.value.type = AT_Bool
               THEN Make(IF arg.value.val # 0 THEN 1 ELSE 0, 32, 32)
               ELSE 0]

\* "Write the name string if we're using inline strings"
WriteArgName(arg, p) ==
    IF arg.name.useStringTable THEN <<>>
    ELSE <<Bytes([w |-> "str", str |-> arg.name.name], arg.name.nameLen),
           ZeroPadding(p.nameSizeInWords * 8 - arg.name.nameLen)>>

\* The bytes staged between two flushes of the hex encoder: the test
\* "offset > sizeof(buffer)" lets offset reach sizeof(buffer), so the digits
\* of one byte more than the buffer holds are stored, the last two past its
\* end, and a flush writes sizeof(buffer) bytes only.
HexBlock == HexBufferSize \div 2 + 1

\* The flushes inside the loop: one for every HexBlock bytes that more bytes
\* follow.
HexFlushes(stringLen) ==
    IF stringLen = 0 THEN 0 ELSE (stringLen - 1) \div HexBlock

\* The hex encoder.  A chunk [first, count] carries the digits of the input
\* bytes first..first+count-1.
WriteHex(value) ==
    LET flushes == HexFlushes(value.stringLen)
        offset == 2 * (value.stringLen - flushes * HexBlock)
        block(k) == Bytes([w |-> "hex", str |-> value.stringValue,
                           first |-> k * HexBlock,
                           count |-> HexBufferSize \div 2], HexBufferSize)
        last == Bytes([w |-> "hex", str |-> value.stringValue,
                       first |-> flushes * HexBlock, count |-> offset \div 2],
                      offset)
    IN  [j \in 1..(2 * flushes) |->
            IF j % 2 = 1 THEN StorePastBuffer ELSE block((j - 2) \div 2)]
        \o (IF offset > HexBufferSize THEN <<StorePastBuffer>> ELSE <<>>)
        \o (IF offset > 0 THEN <<last>> ELSE <<>>)

\* WriteArg, what follows the header and the name.
WriteArgValue(arg, p) ==
    IF arg.value.type \in TwoWordTypes THEN <<UInt64(Data(arg.value.val))>>
    ELSE IF arg.value.type # AT_String THEN <<>>
    ELSE IF arg.value.hexEncode
    THEN WriteHex(arg.value)
         \o <<ZeroPadding((p.headerAndValueSizeInWords - 1) * 8
                          - arg.value.stringLen * 2)>>
    ELSE IF ~arg.value.useStringTable
    THEN <<Bytes([w |-> "str", str |-> arg.value.stringValue],
                 arg.value.stringLen),
           ZeroPadding((p.headerAndValueSizeInWords - 1) * 8
                       - arg.value.stringLen)>>
    ELSE <<>>

\* WriteArg after its writes resulted in r: "*wordsWritten = sizeInWords".
WordsWritten(r, sizeInWords) ==
    [m |-> r.m, ret |-> r.ret,
     wordsWritten |-> IF r.ret = 0 THEN sizeInWords ELSE Unset]

\* WriteArg with a seeded fault: the value is written before the name.
WriteArg_ValueBeforeName(m, arg, p) ==
    LET sizeInWords == p.nameSizeInWords + p.headerAndValueSizeInWords
    IN  IF arg.value.type \notin (OneWordTypes \cup TwoWordTypes \cup {AT_String})
        THEN [m |-> m, ret |-> FXT_ERR_INVALID_ARG_TYPE, wordsWritten |-> Unset]
        ELSE WordsWritten(
                 WriteInOrder(m, <<UInt64(ArgHeader(arg, p, sizeInWords))>>
                                 \o WriteArgValue(arg, p)
                                 \o WriteArgName(arg, p)),
                 sizeInWords)

WriteArg(m, arg, p) ==
    LET sizeInWords == p.nameSizeInWords + p.headerAndValueSizeInWords
    IN  IF arg.value.type \notin (OneWordTypes \cup TwoWordTypes \cup {AT_String})
        THEN [m |-> m, ret |-> FXT_ERR_INVALID_ARG_TYPE, wordsWritten |-> Unset]
        ELSE WordsWritten(
                 WriteInOrder(m, <<UInt64(ArgHeader(arg, p, sizeInWords))>>
                                 \o WriteArgName(arg, p)
                                 \o WriteArgValue(arg, p)),
                 sizeInWords)

\* The loop "WriteArg ... wordsWritten += size" from argument i on;
\* WriteArgsNext is the loop after WriteArg resulted in r for argument i.
RECURSIVE WriteArgsFrom(_, _, _, _, _)
RECURSIVE WriteArgsNext(_, _, _, _, _)

WriteArgsNext(r, args, processedArgs, i, wordsWritten) ==
    IF r.ret # 0 THEN [m |-> r.m, ret |-> r.ret, wordsWritten |-> wordsWritten]
    ELSE WriteArgsFrom(r.m, args, processedArgs, i + 1,
                       wordsWritten + r.wordsWritten)

WriteArgsFrom(m, args, processedArgs, i, wordsWritten) ==
    IF i > Len(args) THEN [m |-> m, ret |-> 0, wordsWritten |-> wordsWritten]
    ELSE WriteArgsNext(WriteArg(m, args[i], processedArgs[i]), args,
                       processedArgs, i, wordsWritten)

\* "if (wordsWritten != argumentSizeInWords)" after the loop resulted in r.
LengthChecked(r, argumentSizeInWords) ==
    IF r.ret # 0 THEN [m |-> r.m, ret |-> r.ret]
    ELSE IF r.wordsWritten # argumentSizeInWords
    THEN [m |-> r.m, ret |-> FXT_ERR_WRITE_LENGTH_MISMATCH]
    ELSE [m |-> r.m, ret |-> 0]

\* The tail shared by the records that carry arguments, the header and the
\* words before the arguments having resulted in r: the arguments, then the
\* comparison of the words written with the pre-computed sum.
WriteArgsChecked(r, args, processedArgs, argumentSizeInWords) ==
    IF r.ret # 0 THEN [m |-> r.m, ret |-> r.ret]
    ELSE LengthChecked(WriteArgsFrom(r.m, args, processedArgs, 1, 0),
                       argumentSizeInWords)

-----------------------------------------------------------------------------
(* Metadata and initialization records.                                        *)

\* The bytes 0x10 0x00 0x04 0x46 0x78 0x54 0x16 0x00.
fxtMagic == <<16, 0, 4, 70, 120, 84, 22, 0>>

\* The magic number record with a seeded fault: the bytes in reverse order.
WriteMagicNumberRecord_Reversed(m) ==
    WriteBytesToStream(m, [w |-> "magic",
                           bytes |-> [k \in 1..Len(fxtMagic) |->
                                         fxtMagic[Len(fxtMagic) + 1 - k]]],
                       Len(fxtMagic))

WriteMagicNumberRecord(m) ==
    WriteBytesToStream(m, [w |-> "magic", bytes |-> fxtMagic], Len(fxtMagic))

AddProviderInfoRecord(m, providerID, providerName) ==
    LET strLen == strlen(providerName)
        paddedStrLen == Pad8(strLen)
        diff == paddedStrLen - strLen
        sizeInWords == 1 + (paddedStrLen \div 8)
        header == [w |-> "record",
                   Type |-> Make(RT_Metadata, 0, 3),
                   RecordSize |-> Make(sizeInWords, 4, 15),
                   MetadataType |-> Make(MT_ProviderInfo, 16, 19),
                   ProviderID |-> Make(providerID, 20, 51),
                   NameLength |-> Make(strLen, 52, 59)]
    IN  IF paddedStrLen >= kMaxNameLength
        THEN [m |-> m, ret |-> FXT_ERR_STR_TOO_LONG]
        ELSE WriteInOrder(m, <<UInt64(header),
                               Bytes([w |-> "str", str |-> providerName], strLen),
                               ZeroPadding(diff)>>)

AddProviderSectionRecord(m, providerID) ==
    WriteUInt64ToStream(m, [w |-> "record",
                            Type |-> Make(RT_Metadata, 0, 3),
                            RecordSize |-> Make(1, 4, 15),
                            MetadataType |-> Make(MT_ProviderSection, 16, 19),
                            ProviderID |-> Make(providerID, 20, 51)])

AddProviderEventRecord(m, providerID, eventType) ==
    WriteUInt64ToStream(m, [w |-> "record",
                            Type |-> Make(RT_Metadata, 0, 3),
                            RecordSize |-> Make(1, 4, 15),
                            MetadataType |-> Make(MT_ProviderEvent, 16, 19),
                            ProviderID |-> Make(providerID, 20, 51),
                            Event |-> Make(eventType, 52, 55)])

\* Writer::AddProviderEventRecord, the member form of the operation.
Writer_AddProviderEventRecord(m, providerID, eventType) ==
    WriteUInt64ToStream(m, [w |-> "record",
                            Type |-> Make(RT_Metadata, 0, 3),
                            RecordSize |-> Make(1, 4, 15),
                            MetadataType |-> Make(MT_ProviderSection, 16, 19),
                            ProviderID |-> Make(providerID, 20, 51),
                            Event |-> Make(eventType, 52, 55)])

AddInitializationRecord(m, numTicksPerSecond) ==
    WriteInOrder(m, <<UInt64([w |-> "record",
                              Type |-> Make(RT_Initialization, 0, 3),
                              RecordSize |-> Make(2, 4, 15)]),
                      UInt64(Data(numTicksPerSecond))>>)

-----------------------------------------------------------------------------
(* The calls an operation makes before it writes its record.  I is the machine *)
(* and the locals they have set so far: index, the handles in the order of the *)
(* calls, and processedArgs; once a call has failed (ret # 0) the operation    *)
(* has returned and the calls after it are not made.                           *)

Locals(m) == [m |-> m, ret |-> 0, index |-> <<>>, processedArgs |-> <<>>]

Indexed(I, r) ==
    [I EXCEPT !.m = r.m, !.ret = r.ret, !.index = Append(@, r.out)]

Processed(I, p) ==
    [I EXCEPT !.m = p.m, !.ret = p.ret, !.processedArgs = p.processedArgs]

ThenStringIndex(I, str) ==
    IF I.ret # 0 THEN I ELSE Indexed(I, GetOrCreateStringIndex(I.m, str))

ThenThreadIndex(I, processID, threadID) ==
    IF I.ret # 0 THEN I
    ELSE Indexed(I, GetOrCreateThreadIndex(I.m, processID, threadID))

ThenProcessArgs(I, args) ==
    IF I.ret # 0 THEN I ELSE Processed(I, ProcessArgs(I.m, args))

-----------------------------------------------------------------------------
(* Kernel-object records.                                                      *)

\* SetProcessName from "Write the header" on, nameIndex being I.index[1].
ProcessNameRecord(I, processID) ==
    LET header == [w |-> "record",
                   Type |-> Make(RT_KernelObject, 0, 3),
                   RecordSize |-> Make(2, 4, 15),
                   ObjectType |-> Make(KT_Process, 16, 23),
                   NameStringRef |-> Make(I.index[1], 24, 39),
                   ArgumentCount |-> Make(0, 40, 43)]
    IN  IF I.ret # 0 THEN Return(I)
        ELSE WriteInOrder(I.m, <<UInt64(header), UInt64(Data(processID))>>)

SetProcessName(m, processID, name) ==
    ProcessNameRecord(ThenStringIndex(Locals(m), name), processID)

\* The string "process", 7 bytes.
processArgName == LongBase + 7

\* RecordArgument("process", RecordArgumentValue::KOID(processID))
processArg(processID) ==
    [name |-> [name |-> processArgName, nameLen |-> strlen(processArgName),
               useStringTable |-> FALSE],
     value |-> [type |-> AT_KOID, val |-> processID, stringValue |-> Unset,
                stringLen |-> Unset, useStringTable |-> FALSE,
                hexEncode |-> FALSE]]

\* SetThreadName from argSizeInWords on.
ThreadNameRecord(I, threadID, args) ==
    LET argSizeInWords == ArgumentSizeInWords(I.processedArgs, 1)
        sizeInWords == 1 + 1 + argSizeInWords
        header == [w |-> "record",
                   Type |-> Make(RT_KernelObject, 0, 3),
                   RecordSize |-> Make(sizeInWords, 4, 15),
                   ObjectType |-> Make(KT_Thread, 16, 23),
                   NameStringRef |-> Make(I.index[1], 24, 39),
                   ArgumentCount |-> Make(1, 40, 43)]
    IN  IF I.ret # 0 THEN Return(I)
        ELSE IF sizeInWords > kMaxRecordSizeWords
        THEN [m |-> I.m, ret |-> FXT_ERR_RECORD_SIZE_TOO_LARGE]
        ELSE WriteArgsChecked(
                 WriteInOrder(I.m, <<UInt64(header), UInt64(Data(threadID))>>),
                 args, I.processedArgs, argSizeInWords)

SetThreadName(m, processID, threadID, name) ==
    ThreadNameRecord(
        ThenProcessArgs(ThenStringIndex(Locals(m), name), <<processArg(processID)>>),
        threadID, <<processArg(processID)>>)

-----------------------------------------------------------------------------
(* Event records.                                                              *)

\* WriteEventHeaderAndGenericData from "Add up the argument word size" on,
\* categoryIndex, nameIndex and threadIndex being I.index[1..3].
EventRecord(I, eventType, timestamp, extraSizeInWords, args) ==
    LET numArgs == Len(args)
        argumentSizeInWords == ArgumentSizeInWords(I.processedArgs, numArgs)
        sizeInWords == 1 + 1 + argumentSizeInWords + extraSizeInWords
        header == [w |-> "record",
                   Type |-> Make(RT_Event, 0, 3),
                   RecordSize |-> Make(sizeInWords, 4, 15),
                   EventType |-> Make(eventType, 16, 19),
                   ArgumentCount |-> Make(numArgs, 20, 23),
                   ThreadRef |-> Make(I.index[3], 24, 31),
                   CategoryStringRef |-> Make(I.index[1], 32, 47),
                   NameStringRef |-> Make(I.index[2], 48, 63)]
    IN  IF I.ret # 0 THEN Return(I)
        ELSE WriteArgsChecked(
                 WriteInOrder(I.m, <<UInt64(header), UInt64(Data(timestamp))>>),
                 args, I.processedArgs, argumentSizeInWords)

WriteEventHeaderAndGenericData(m, eventType, category, name, processID, threadID, timestamp, extraSizeInWords, args) ==
    IF Len(args) > FXT_MAX_NUM_ARGS
    THEN [m |-> m, ret |-> FXT_ERR_TOO_MANY_ARGS]
    ELSE EventRecord(
             ThenProcessArgs(
                 ThenThreadIndex(
                     ThenStringIndex(ThenStringIndex(Locals(m), category), name),
                     processID, threadID),
                 args),
             eventType, timestamp, extraSizeInWords, args)

\* extraSizeInWords of the event functions: Instant, DurationBegin and
\* DurationEnd have no extra word, the other eight have one.
ExtraSizeInWords(eventType) ==
    IF eventType \in {ET_Instant, ET_DurationBegin, ET_DurationEnd} THEN 0 ELSE 1

\* The extra word with a seeded fault: it is written after a failure too.
ExtraWord_AfterFailure(r, eventType, extraWord) ==
    IF ExtraSizeInWords(eventType) = 0 THEN r
    ELSE WriteUInt64ToStream(r.m, Data(extraWord))

\* An event function after WriteEventHeaderAndGenericData resulted in r: the
\* extra word (counter id, end timestamp, async or flow correlation id) if
\* the event has one.
ExtraWord(r, eventType, extraWord) ==
    IF ExtraSizeInWords(eventType) = 0 \/ r.ret # 0 THEN r
    ELSE WriteUInt64ToStream(r.m, Data(extraWord))

\* AddInstantEvent .. AddFlowEndEvent.
AddEvent(m, eventType, category, name, processID, threadID, timestamp, extraWord, args) ==
    ExtraWord(WriteEventHeaderAndGenericData(m, eventType, category, name,
                  processID, threadID, timestamp, ExtraSizeInWords(eventType),
                  args),
              eventType, extraWord)

-----------------------------------------------------------------------------
(* Blob, userspace-object and scheduling records.                              *)

\* AddBlobRecord from paddedSize on, nameIndex being I.index[1].
BlobRecord(I, data, dataLen, blobType) ==
    LET paddedSize == Pad8(dataLen)
        diff == paddedSize - dataLen
        sizeInWords == 1 + (paddedSize \div 8)
        header == [w |-> "record",
                   Type |-> Make(RT_Blob, 0, 3),
                   RecordSize |-> Make(sizeInWords, 4, 15),
                   NameStringRef |-> Make(I.index[1], 16, 31),
                   BlobSize |-> Make(dataLen, 32, 46),
                   BlobType |-> Make(blobType, 48, 55)]
    IN  IF I.ret # 0 THEN Return(I)
        ELSE WriteInOrder(I.m, <<UInt64(header),
                                 Bytes([w |-> "blob", data |-> data], dataLen),
                                 ZeroPadding(diff)>>)

AddBlobRecord(m, name, data, dataLen, blobType) ==
    IF dataLen > kMaxBlobLength
    THEN [m |-> m, ret |-> FXT_ERR_DATA_TOO_LONG]
    ELSE BlobRecord(ThenStringIndex(Locals(m), name), data, dataLen, blobType)

\* AddUserspaceObjectRecord from "Add up the argument word size" on,
\* nameIndex and threadIndex being I.index[1..2].
UserspaceObjectRecord(I, pointerValue, args) ==
    LET numArgs == Len(args)
        argumentSizeInWords == ArgumentSizeInWords(I.processedArgs, numArgs)
        sizeInWords == 1 + 1 + argumentSizeInWords
        header == [w |-> "record",
                   Type |-> Make(RT_UserspaceObject, 0, 3),
                   RecordSize |-> Make(sizeInWords, 4, 15),
                   ThreadRef |-> Make(I.index[2], 16, 23),
                   NameStringRef |-> Make(I.index[1], 24, 39),
                   ArgumentCount |-> Make(numArgs, 40, 43)]
    IN  IF I.ret # 0 THEN Return(I)
        ELSE WriteArgsChecked(
                 WriteInOrder(I.m, <<UInt64(header), UInt64(Data(pointerValue))>>),
                 args, I.processedArgs, argumentSizeInWords)

\* AddUserspaceObjectRecord with a seeded fault: the number of arguments is
\* tested after the name and the thread have been interned.
AddUserspaceObjectRecord_CountAfterIndex(m, name, processID, threadID, pointerValue, args) ==
    IF Len(args) > FXT_MAX_NUM_ARGS
    THEN [m |-> ThenThreadIndex(ThenStringIndex(Locals(m), name),
                                processID, threadID).m,
          ret |-> FXT_ERR_TOO_MANY_ARGS]
    ELSE UserspaceObjectRecord(
             ThenProcessArgs(
                 ThenThreadIndex(ThenStringIndex(Locals(m), name),
                                 processID, threadID),
                 args),
             pointerValue, args)

AddUserspaceObjectRecord(m, name, processID, threadID, pointerValue, args) ==
    IF Len(args) > FXT_MAX_NUM_ARGS
    THEN [m |-> m, ret |-> FXT_ERR_TOO_MANY_ARGS]
    ELSE UserspaceObjectRecord(
             ThenProcessArgs(
                 ThenThreadIndex(ThenStringIndex(Locals(m), name),
                                 processID, threadID),
                 args),
             pointerValue, args)

\* A scheduling record from "Add up the argument word size" on: the header
\* made of the fields the record has, the words that follow it, the arguments.
SchedulingRecord(I, fields, words, args) ==
    LET numArgs == Len(args)
        argumentSizeInWords == ArgumentSizeInWords(I.processedArgs, numArgs)
        sizeInWords == 1 + Len(words) + argumentSizeInWords
        header == [w |-> "record",
                   Type |-> Make(RT_Scheduling, 0, 3),
                   RecordSize |-> Make(sizeInWords, 4, 15),
                   ArgumentCount |-> Make(numArgs, 16, 19)] @@ fields
    IN  IF I.ret # 0 THEN Return(I)
        ELSE WriteArgsChecked(
                 WriteInOrder(I.m, <<UInt64(header)>>
                                   \o [k \in DOMAIN words |-> UInt64(Data(words[k]))]),
                 args, I.processedArgs, argumentSizeInWords)

\* AddContextSwitchRecord with a seeded fault: the sanity check lets 16 pass.
AddContextSwitchRecord_Accepts16(m, cpuNumber, outgoingThreadState, outgoingThreadID, incomingThreadID, timestamp, args) ==
    IF outgoingThreadState > 16
    THEN [m |-> m, ret |-> FXT_ERR_INVALID_OUTGOING_THREAD_STATE]
    ELSE IF Len(args) > FXT_MAX_NUM_ARGS
    THEN [m |-> m, ret |-> FXT_ERR_TOO_MANY_ARGS]
    ELSE SchedulingRecord(
             ThenProcessArgs(Locals(m), args),
             [CpuNumber |-> Make(cpuNumber, 20, 35),
              OutgoingThreadState |-> Make(outgoingThreadState, 36, 39),
              EventType |-> Make(ST_ContextSwitch, 60, 63)],
             <<timestamp, outgoingThreadID, incomingThreadID>>, args)

AddContextSwitchRecord(m, cpuNumber, outgoingThreadState, outgoingThreadID, incomingThreadID, timestamp, args) ==
    IF outgoingThreadState > 15
    THEN [m |-> m, ret |-> FXT_ERR_INVALID_OUTGOING_THREAD_STATE]
    ELSE IF Len(args) > FXT_MAX_NUM_ARGS
    THEN [m |-> m, ret |-> FXT_ERR_TOO_MANY_ARGS]
    ELSE SchedulingRecord(
             ThenProcessArgs(Locals(m), args),
             [CpuNumber |-> Make(cpuNumber, 20, 35),
              OutgoingThreadState |-> Make(outgoingThreadState, 36, 39),
              EventType |-> Make(ST_ContextSwitch, 60, 63)],
             <<timestamp, outgoingThreadID, incomingThreadID>>, args)

AddFiberSwitchRecord(m, processID, threadID, outgoingFiberID, incomingFiberID, timestamp, args) ==
    IF Len(args) > FXT_MAX_NUM_ARGS
    THEN [m |-> m, ret |-> FXT_ERR_TOO_MANY_ARGS]
    ELSE SchedulingRecord(
             ThenProcessArgs(Locals(m), args),
             [EventType |-> Make(ST_FiberSwitch, 60, 63)],
             <<timestamp, outgoingFiberID, incomingFiberID>>, args)

AddThreadWakeupRecord(m, cpuNumber, wakingThreadID, timestamp, args) ==
    IF Len(args) > FXT_MAX_NUM_ARGS
    THEN [m |-> m, ret |-> FXT_ERR_TOO_MANY_ARGS]
    ELSE SchedulingRecord(
             ThenProcessArgs(Locals(m), args),
             [CpuNumber |-> Make(cpuNumber, 20, 35),
              EventType |-> Make(ST_ThreadWakeup, 60, 63)],
             <<timestamp, wakingThreadID>>, args)

-----------------------------------------------------------------------------
(* The reader of the stream.  A String record binds its StringIndex to the     *)
(* content that follows it, a Thread record binds its ThreadIndex to the pair  *)
(* that follows it; n is the ordinal of the binding record among the records   *)
(* of its kind.  The reader resolves every handle a record carries through the *)
(* bindings it has at that point of the stream (strRefs, thrRefs) and counts   *)
(* the bytes and the argument headers of every record (recs).  Only chunks the *)
(* sink accepted are in the stream.                                            *)

NoString == [str |-> Unbound, n |-> 0]
NoThread == [pid |-> Unbound, tid |-> Unbound, n |-> 0]

BoundString(g, h) == IF h \in DOMAIN g.sb THEN g.sb[h] ELSE NoString
BoundThread(g, h) == IF h \in DOMAIN g.tb THEN g.tb[h] ELSE NoThread

\* A reference to the string table (an inline reference has bit 15 set).
StrRef(g, field, h, arg) ==
    IF h >= InlineBit THEN <<>>
    ELSE <<[field |-> field, handle |-> h, str |-> BoundString(g, h).str,
            arg |-> arg]>>

ThrRef(g, field, h) ==
    <<[field |-> field, handle |-> h,
       pid |-> BoundThread(g, h).pid, tid |-> BoundThread(g, h).tid]>>

\* The fields of a header that hold a string reference, a thread reference.
StringRefFieldNames == <<"CategoryStringRef", "NameStringRef">>

RECURSIVE HeaderStrRefs(_, _, _)
HeaderStrRefs(g, hdr, i) ==
    IF i > Len(StringRefFieldNames) THEN <<>>
    ELSE (IF StringRefFieldNames[i] \in DOMAIN hdr
          THEN StrRef(g, StringRefFieldNames[i], hdr[StringRefFieldNames[i]], 0)
          ELSE <<>>) \o HeaderStrRefs(g, hdr, i + 1)

HeaderThrRefs(g, hdr) ==
    IF "ThreadRef" \in DOMAIN hdr THEN ThrRef(g, "ThreadRef", hdr.ThreadRef)
    ELSE <<>>

\* The record a header word opens.
NewRecord(hdr) ==
    [Type |-> hdr.Type, RecordSize |-> hdr.RecordSize, bytes |-> 8,
     ArgumentCount |-> IF "ArgumentCount" \in DOMAIN hdr
                       THEN hdr.ArgumentCount ELSE 0,
     EventType |-> IF "EventType" \in DOMAIN hdr THEN hdr.EventType ELSE 0,
     nargs |-> 0, argWords |-> 0]

\* The record the magic bytes are: type and size from bits 0..15.
MagicRecord(bytes) ==
    [Type |-> bytes[1] % 16,
     RecordSize |-> (bytes[1] \div 16) + 16 * bytes[2], bytes |-> Len(bytes),
     ArgumentCount |-> 0, EventType |-> 0, nargs |-> 0, argWords |-> 0]

\* len more bytes of the record being read.
MoreBytes(g, len) ==
    IF g.recs = <<>> THEN g
    ELSE [g EXCEPT !.recs[Len(g.recs)].bytes = @ + len]

Accepted(log, i) == i <= Len(log) /\ log[i].ret = 0

ReadRecordHeader(g, log, i) ==
    LET hdr == log[i].val
        g1 == [g EXCEPT !.recs = Append(@, NewRecord(hdr)),
                        !.strRefs = @ \o HeaderStrRefs(g, hdr, 1),
                        !.thrRefs = @ \o HeaderThrRefs(g, hdr)]
    IN  IF hdr.Type = RT_String
        THEN IF Accepted(log, i + 1)
             THEN [g1 EXCEPT !.ns = @ + 1,
                             !.sb[hdr.StringIndex] =
                                 [str |-> log[i + 1].val.str, n |-> g.ns + 1]]
             ELSE [g1 EXCEPT !.ns = @ + 1]
        ELSE IF hdr.Type = RT_Thread
        THEN IF Accepted(log, i + 1) /\ Accepted(log, i + 2)
             THEN [g1 EXCEPT !.nt = @ + 1,
                             !.tb[hdr.ThreadIndex] =
                                 [pid |-> log[i + 1].val.u64,
                                  tid |-> log[i + 2].val.u64, n |-> g.nt + 1]]
             ELSE [g1 EXCEPT !.nt = @ + 1]
        ELSE g1

ReadArgHeader(g, hdr) ==
    LET k == Len(g.recs)
        arg == g.recs[k].nargs + 1
    IN  [g EXCEPT !.recs[k].bytes = @ + 8,
                  !.recs[k].nargs = arg,
                  !.recs[k].argWords = @ + hdr.ArgumentSize,
                  !.strRefs = @ \o StrRef(g, "NameRef", hdr.NameRef, arg)
                                \o (IF hdr.Type = AT_String
                                    THEN StrRef(g, "ValueRef", hdr.ValueRef, arg)
                                    ELSE <<>>)]

ReadChunk(g, log, i) ==
    LET c == log[i]
    IN  IF c.ret # 0 THEN g
        ELSE IF c.val.w = "record" THEN ReadRecordHeader(g, log, i)
        ELSE IF c.val.w = "magic"
        THEN [g EXCEPT !.recs = Append(@, MagicRecord(c.val.bytes))]
        ELSE IF c.val.w = "arg" /\ g.recs # <<>> THEN ReadArgHeader(g, c.val)
        ELSE MoreBytes(g, c.len)

\* The view after reading the chunks lo..hi of log, from view g.
RECURSIVE ReadLog(_, _, _, _)
ReadLog(g, log, lo, hi) ==
    IF hi < lo THEN g
    ELSE IF hi = lo THEN ReadChunk(g, log, lo)
    ELSE LET mid == (lo + hi) \div 2
             left == ReadLog(g, log, lo, mid)
         IN  \* the test reads the first half before the second starts
             IF left.ns >= 0 THEN ReadLog(left, log, mid + 1, hi) ELSE left

\* The machine made of the writer's variables and a sink that fails its
\* failAt-th call with err.
Machine(failAt, err, ub, uninit) ==
    [stringTable |-> stringTable, threadTable |-> threadTable,
     nextStringIndex |-> nextStringIndex, nextThreadIndex |-> nextThreadIndex,
     log |-> <<>>, failAt |-> failAt, err |-> err, ub |-> ub, uninit |-> uninit]

View == [sb |-> strBinding, tb |-> thrBinding,
         ns |-> numStringRecords, nt |-> numThreadRecords,
         strRefs |-> <<>>, thrRefs |-> <<>>, recs |-> <<>>]

-----------------------------------------------------------------------------
(* Initial states.  A writer is constructed with both counters 0 and both      *)
(* tables uninitialised (any words).  Init is that writer, or that writer      *)
(* after a warm-up of k successful GetOrCreateStringIndex calls and k'         *)
(* successful GetOrCreateThreadIndex calls with pairwise distinct inputs       *)
(* (strings 0..k-1, threads 0..k'-1), computed by the operations above.        *)

\* What the uninitialised tables may hold: zeroes, or words that happen to be
\* the hashes of the first string and the first thread.
GarbageWords ==
    {[s |-> 0, t |-> 0],
     [s |-> XXH3_64bits(0), t |-> XXH3_pair(PairOf(0).pid, PairOf(0).tid)]}

\* The warm-ups: (string interns, thread interns).  The last one leaves both
\* 16-bit counters at their greatest value.
WarmUps == {<<0, 0>>, <<StringTableSize - 1, ThreadTableSize - 1>>,
            <<UInt16Mod - 1, UInt16Mod - 1>>}

\* Once a warm-up has written every slot nothing is left of the garbage.
GarbageOf(k) ==
    IF k[1] >= StringTableSize /\ k[2] >= ThreadTableSize
    THEN {CHOOSE g \in GarbageWords : g.s = 0}
    ELSE GarbageWords

Constructed(garbage) ==
    [m |-> [stringTable |-> [i \in 0..(StringTableSize - 1) |-> garbage.s],
            threadTable |-> [i \in 0..(ThreadTableSize - 1) |-> garbage.t],
            nextStringIndex |-> 0, nextThreadIndex |-> 0,
            log |-> <<>>, failAt |-> 0, err |-> 0,
            ub |-> "benign", uninit |-> 0],
     g |-> [sb |-> [h \in 0..StringTableSize |-> NoString],
            tb |-> [h \in 0..ThreadTableSize |-> NoThread],
            ns |-> 0, nt |-> 0,
            strRefs |-> <<>>, thrRefs |-> <<>>, recs |-> <<>>],
     lastStr |-> Unset, lastThr |-> Unset]

WarmStep(W, i, kind) ==
    LET m0 == [W.m EXCEPT !.log = <<>>]
        r == IF kind = "string" THEN GetOrCreateStringIndex(m0, i)
             ELSE GetOrCreateThreadIndex(m0, PairOf(i).pid, PairOf(i).tid)
        g == ReadLog(W.g, r.m.log, 1, Len(r.m.log))
    IN  [m |-> r.m, g |-> [g EXCEPT !.recs = <<>>],
         lastStr |-> IF kind = "string" THEN r.out ELSE W.lastStr,
         lastThr |-> IF kind = "string" THEN W.lastThr ELSE r.out]

\* The warm-up steps lo..hi-1.
RECURSIVE Warm(_, _, _, _)
Warm(W, lo, hi, kind) ==
    IF hi <= lo THEN W
    ELSE IF hi = lo + 1 THEN WarmStep(W, lo, kind)
    ELSE LET mid == (lo + hi) \div 2
             left == Warm(W, lo, mid, kind)
         IN  \* the test evaluates the first half before the second starts
             IF left.g.ns >= 0 THEN Warm(left, mid, hi, kind) ELSE left

\* The state of a writer W with its reader, after k[1] and k[2] intern calls.
StartAt(W, k) ==
    /\ stringTable = W.m.stringTable
    /\ threadTable = W.m.threadTable
    /\ nextStringIndex = W.m.nextStringIndex
    /\ nextThreadIndex = W.m.nextThreadIndex
    /\ strBinding = W.g.sb
    /\ thrBinding = W.g.tb
    /\ numStringRecords = W.g.ns
    /\ numThreadRecords = W.g.nt
    /\ strHist = [n |-> k[1], distinct |-> TRUE, last |-> W.lastStr,
                  fresh |-> k[1]]
    /\ thrHist = [n |-> k[2], distinct |-> TRUE, last |-> W.lastThr,
                  fresh |-> k[2]]
    /\ calls = <<>>

Init ==
    \E k \in WarmUps : \E garbage \in GarbageOf(k) :
        \E S \in {Warm(Constructed(garbage), 0, k[1], "string")} :
            \E W \in {Warm(S, 0, k[2], "thread")} :
                StartAt(W, k) /\ writers = <<>>

-----------------------------------------------------------------------------
(* Operations.  Each action is one call of a public function on the writer;    *)
(* it appends the call, its result, its sink log and what the reader made of   *)
(* the log to calls.                                                           *)

Max(a, b) == IF a >= b THEN a ELSE b

RECURSIVE MaxOf(_)
MaxOf(S) == IF S = {} THEN -1
            ELSE LET x == CHOOSE y \in S : TRUE IN Max(x, MaxOf(S \ {x}))

\* The history of intern calls after one more call with this input, after an
\* operation that interned these inputs on its own.
HistAfterIntern(h, input, r) ==
    [n |-> h.n + 1,
     distinct |-> h.distinct /\ r.ret = 0 /\ input >= h.fresh,
     last |-> r.out,
     fresh |-> Max(h.fresh, input + 1)]

HistAfterUse(h, inputs) ==
    IF inputs = {} THEN h
    ELSE [h EXCEPT !.distinct = FALSE, !.fresh = Max(@, MaxOf(inputs) + 1)]

\* The ordinal of the binding record behind the handle an intern call returned.
OutNo(g, op, out) ==
    IF op = "GetOrCreateStringIndex" THEN BoundString(g, out).n
    ELSE IF op = "GetOrCreateThreadIndex" THEN BoundThread(g, out).n
    ELSE 0

\* The writer and the reader after an operation whose result is r.
Commit(r, call, out, sh, th) ==
    \E g \in {ReadLog(View, r.m.log, 1, Len(r.m.log))} :
        /\ stringTable' = r.m.stringTable
        /\ threadTable' = r.m.threadTable
        /\ nextStringIndex' = r.m.nextStringIndex
        /\ nextThreadIndex' = r.m.nextThreadIndex
        /\ strBinding' = g.sb
        /\ thrBinding' = g.tb
        /\ numStringRecords' = g.ns
        /\ numThreadRecords' = g.nt
        /\ strHist' = sh
        /\ thrHist' = th
        /\ calls' = Append(calls, [call |-> call, ret |-> r.ret, out |-> out,
                                   outNo |-> OutNo(g, call.op, out),
                                   log |-> r.m.log, strRefs |-> g.strRefs,
                                   thrRefs |-> g.thrRefs, recs |-> g.recs])
        /\ UNCHANGED writers

\* Argument constructors of record_args.h.
ArgName(name, useStringTable) ==
    [name |-> name, nameLen |-> strlen(name), useStringTable |-> useStringTable]

StringValue(value, useStringTable) ==
    [type |-> AT_String, val |-> 0, stringValue |-> value,
     stringLen |-> strlen(value), useStringTable |-> useStringTable,
     hexEncode |-> FALSE]

HexArray(value, valueLen) ==
    [type |-> AT_String, val |-> 0, stringValue |-> value,
     stringLen |-> valueLen, useStringTable |-> FALSE, hexEncode |-> TRUE]

\* A value of a type that is not String; the string fields are not set.
ScalarValue(type, val) ==
    [type |-> type, val |-> val, stringValue |-> Unset, stringLen |-> Unset,
     useStringTable |-> FALSE, hexEncode |-> FALSE]

RecordArgument(name, value) == [name |-> name, value |-> value]

\* The strings an argument list interns.
ArgStrings(args) ==
    {args[i].name.name : i \in {j \in DOMAIN args : args[j].name.useStringTable}}
    \cup {args[i].value.stringValue :
            i \in {j \in DOMAIN args : /\ args[j].value.type = AT_String
                                       /\ args[j].value.useStringTable
                                       /\ ~args[j].value.hexEncode}}

\* The handle the next insert takes and the handle the last insert took.
Slot(next, size) == (next % size) + 1
PrevSlot(next, size) == ((next + size - 1) % size) + 1

\* The strings the operations of Spec are called with: the content bound to
\* the handle the next insert rebinds, the content of the last insert, and
\* contents never seen before.
OldestStr == strBinding[Slot(nextStringIndex, StringTableSize)].str
NewestStr == strBinding[PrevSlot(nextStringIndex, StringTableSize)].str
StrInputs == {OldestStr, NewestStr, strHist.fresh, strHist.fresh + 1} \ {Unbound}
OldOrNewStr == {OldestStr, strHist.fresh} \ {Unbound}

\* The threads (by number) they are called with, chosen the same way.
ThreadNo(b) == IF b.pid = Unbound THEN Unbound ELSE IndexOf(b.pid, b.tid)
OldestThr == ThreadNo(thrBinding[Slot(nextThreadIndex, ThreadTableSize)])
NewestThr == ThreadNo(thrBinding[PrevSlot(nextThreadIndex, ThreadTableSize)])
ThrInputs == {OldestThr, NewestThr, thrHist.fresh, thrHist.fresh + 1} \ {Unbound}
OldOrNewThr == {OldestThr, thrHist.fresh} \ {Unbound}

\* The argument lists of Spec: none, or one argument with an indexed name
\* and an indexed string value.
IndexedArgLists ==
    {<<>>,
     <<RecordArgument(ArgName(strHist.fresh + 2, TRUE),
                      StringValue(strHist.fresh + 3, TRUE))>>}

\* A sink that accepts everything, a build in which nothing is undefined.
GoodMachine == Machine(0, 0, "benign", 0)

\* The sinks of the intern calls of Spec: one that accepts everything (0) and
\* one that accepts a record's header and rejects what follows it.
SinkFailures == {0, 2}
SinkError == 7

CallGetOrCreateStringIndex(str, failAt) ==
    /\ Len(calls) < MaxOps
    /\ \E r \in {GetOrCreateStringIndex(
                       Machine(failAt, SinkError, "benign", 0), str)} :
           Commit(r, [op |-> "GetOrCreateStringIndex", str |-> str], r.out,
                  HistAfterIntern(strHist, str, r), thrHist)

CallGetOrCreateThreadIndex(thr, failAt) ==
    /\ Len(calls) < MaxOps
    /\ \E r \in {GetOrCreateThreadIndex(Machine(failAt, SinkError, "benign", 0),
                                        PairOf(thr).pid, PairOf(thr).tid)} :
           Commit(r, [op |-> "GetOrCreateThreadIndex",
                      processID |-> PairOf(thr).pid, threadID |-> PairOf(thr).tid],
                  r.out, strHist, HistAfterIntern(thrHist, thr, r))

CallAddInstantEvent(category, name, thr, args) ==
    /\ Len(calls) < MaxOps
    /\ \E r \in {AddEvent(GoodMachine, ET_Instant, category, name,
                          PairOf(thr).pid, PairOf(thr).tid, 1000, 0, args)} :
           Commit(r, [op |-> "AddEvent", eventType |-> ET_Instant,
                      category |-> category, name |-> name,
                      processID |-> PairOf(thr).pid, threadID |-> PairOf(thr).tid,
                      args |-> args],
                  Unset,
                  HistAfterUse(strHist, {category, name} \cup ArgStrings(args)),
                  HistAfterUse(thrHist, {thr}))

CallAddUserspaceObjectRecord(name, thr) ==
    /\ Len(calls) < MaxOps
    /\ \E r \in {AddUserspaceObjectRecord(GoodMachine, name, PairOf(thr).pid,
                                          PairOf(thr).tid, 4096, <<>>)} :
           Commit(r, [op |-> "AddUserspaceObjectRecord", name |-> name,
                      processID |-> PairOf(thr).pid, threadID |-> PairOf(thr).tid,
                      args |-> <<>>],
                  Unset, HistAfterUse(strHist, {name}), HistAfterUse(thrHist, {thr}))

CallAddBlobRecord(name) ==
    /\ Len(calls) < MaxOps
    /\ \E r \in {AddBlobRecord(GoodMachine, name, 0, 12, 1)} :
           Commit(r, [op |-> "AddBlobRecord", name |-> name, dataLen |-> 12],
                  Unset, HistAfterUse(strHist, {name}), thrHist)

CallSetProcessName(name) ==
    /\ Len(calls) < MaxOps
    /\ \E r \in {SetProcessName(GoodMachine, 1, name)} :
           Commit(r, [op |-> "SetProcessName", name |-> name],
                  Unset, HistAfterUse(strHist, {name}), thrHist)

CallSetThreadName(name) ==
    /\ Len(calls) < MaxOps
    /\ \E r \in {SetThreadName(GoodMachine, 1, 2, name)} :
           Commit(r, [op |-> "SetThreadName", name |-> name],
                  Unset, HistAfterUse(strHist, {name}), thrHist)

CallWriteMagicNumberRecord ==
    /\ Len(calls) < MaxOps
    /\ \E r \in {WriteMagicNumberRecord(GoodMachine)} :
           Commit(r, [op |-> "WriteMagicNumberRecord"], Unset, strHist, thrHist)

Next ==
    \/ CallWriteMagicNumberRecord
    \/ \E str \in StrInputs, failAt \in SinkFailures :
           CallGetOrCreateStringIndex(str, failAt)
    \/ \E thr \in ThrInputs, failAt \in SinkFailures :
           CallGetOrCreateThreadIndex(thr, failAt)
    \/ \E category \in OldOrNewStr, thr \in OldOrNewThr, args \in IndexedArgLists :
           CallAddInstantEvent(category, strHist.fresh + 1, thr, args)
    \/ \E name \in OldOrNewStr, thr \in OldOrNewThr :
           CallAddUserspaceObjectRecord(name, thr)
    \/ \E name \in OldOrNewStr : CallAddBlobRecord(name)
    \/ \E name \in OldOrNewStr : CallSetProcessName(name)
    \/ \E name \in OldOrNewStr : CallSetThreadName(name)

Spec == Init /\ [][Next]_vars

-----------------------------------------------------------------------------
(* The claims about the intern tables.                                         *)

Succeeded(i) == \A k \in 1..i : calls[k].ret = 0

\* The content the caller supplied for the field a resolved reference is in.
Wanted(c, ref) ==
    IF ref.field = "CategoryStringRef" THEN c.call.category
    ELSE IF ref.field = "NameStringRef" THEN c.call.name
    ELSE IF ref.field = "NameRef" THEN c.call.args[ref.arg].name.name
    ELSE c.call.args[ref.arg].value.stringValue

\* C1: in a run of successful operations, every string handle a record
\* carries resolves, through the latest String record before it, to the
\* content the caller supplied for that field.
C1_StringHandlesResolve ==
    \A i \in DOMAIN calls :
        Succeeded(i) =>
            \A j \in DOMAIN calls[i].strRefs :
                calls[i].strRefs[j].str = Wanted(calls[i], calls[i].strRefs[j])

\* C2: in a run of successful operations, every thread handle a record
\* carries resolves, through the latest Thread record before it, to the
\* (processID, threadID) pair the caller passed to the operation.
C2_ThreadHandlesResolve ==
    \A i \in DOMAIN calls :
        Succeeded(i) =>
            \A j \in DOMAIN calls[i].thrRefs :
                /\ calls[i].thrRefs[j].pid = calls[i].call.processID
                /\ calls[i].thrRefs[j].tid = calls[i].call.threadID

\* A record referenced a thread handle after the 128-slot table had wrapped.
C2_Witness ==
    /\ numThreadRecords > ThreadTableSize
    /\ \E i \in DOMAIN calls :
           /\ Succeeded(i)
           /\ calls[i].call.op \in {"AddEvent", "AddUserspaceObjectRecord"}
           /\ calls[i].thrRefs # <<>>
           /\ calls[i].log[1].val.Type = RT_Thread

BackToBack(i, op) ==
    /\ i + 1 \in DOMAIN calls
    /\ calls[i].call.op = op /\ calls[i + 1].call.op = op
    /\ calls[i].ret = 0 /\ calls[i + 1].ret = 0

\* C3: two back-to-back GetOrCreateStringIndex calls with equal content
\* return the same handle and the second makes no sink call, in every state.
C3_StringInternIdempotent ==
    \A i \in DOMAIN calls :
        (BackToBack(i, "GetOrCreateStringIndex")
         /\ calls[i].call.str = calls[i + 1].call.str)
        => /\ calls[i + 1].out = calls[i].out
           /\ calls[i + 1].log = <<>>

SamePair(a, b) ==
    a.call.processID = b.call.processID /\ a.call.threadID = b.call.threadID

Distance(a, b) == IF a >= b THEN a - b ELSE b - a

\* C4: two back-to-back GetOrCreateThreadIndex calls with the same pair
\* return the same handle and the second emits nothing; two calls with
\* different pairs return different handles when fewer than 128 inserts
\* separate the inserts of the two pairs.
C4_ThreadInternIdempotent ==
    /\ \A i \in DOMAIN calls :
           (BackToBack(i, "GetOrCreateThreadIndex")
            /\ SamePair(calls[i], calls[i + 1]))
           => /\ calls[i + 1].out = calls[i].out
              /\ calls[i + 1].log = <<>>
    /\ \A i, j \in DOMAIN calls :
           (/\ calls[i].call.op = "GetOrCreateThreadIndex"
            /\ calls[j].call.op = "GetOrCreateThreadIndex"
            /\ calls[i].ret = 0 /\ calls[j].ret = 0
            /\ ~SamePair(calls[i], calls[j])
            /\ Distance(calls[i].outNo, calls[j].outNo) < ThreadTableSize)
           => calls[i].out # calls[j].out

\* C5: after N GetOrCreateStringIndex calls with pairwise distinct contents
\* on a fresh writer, the N-th handle is ((N-1) mod 512) + 1 and N String
\* records have been emitted.
C5_StringHandleOfNthInsert ==
    (strHist.distinct /\ strHist.n >= 1)
    => /\ strHist.last = ((strHist.n - 1) % StringTableSize) + 1
       /\ numStringRecords = strHist.n

\* The 513th distinct string has been interned and has taken handle 1.
C5_Witness ==
    /\ strHist.distinct /\ strHist.n = StringTableSize + 1
    /\ calls # <<>> /\ calls[Len(calls)].call.op = "GetOrCreateStringIndex"
    /\ calls[Len(calls)].out = 1
    /\ strBinding[1].str = calls[Len(calls)].call.str

\* C6: after N GetOrCreateThreadIndex calls with pairwise distinct pairs on
\* a fresh writer, the N-th handle is ((N-1) mod 128) + 1 and N Thread
\* records have been emitted.
C6_ThreadHandleOfNthInsert ==
    (thrHist.distinct /\ thrHist.n >= 1)
    => /\ thrHist.last = ((thrHist.n - 1) % ThreadTableSize) + 1
       /\ numThreadRecords = thrHist.n

\* The 129th distinct pair has been interned and has taken handle 1.
C6_Witness ==
    /\ thrHist.distinct /\ thrHist.n = ThreadTableSize + 1
    /\ calls # <<>> /\ calls[Len(calls)].call.op = "GetOrCreateThreadIndex"
    /\ calls[Len(calls)].out = 1
    /\ thrBinding[1].pid = calls[Len(calls)].call.processID
    /\ thrBinding[1].tid = calls[Len(calls)].call.threadID

\* The fields of a record header and of an argument header that hold a handle.
HandleFields == {"StringIndex", "ThreadIndex", "ThreadRef",
                 "CategoryStringRef", "NameStringRef", "NameRef"}

\* The handles a header word carries (the value of a String argument is a
\* string reference, the same bits of another argument are not).
HandlesOf(hdr) ==
    {hdr[f] : f \in HandleFields \cap DOMAIN hdr}
    \cup (IF hdr.w = "arg" /\ hdr.Type = AT_String THEN {hdr.ValueRef} ELSE {})

\* C7: every handle a successful GetOrCreateStringIndex returns is in 1..512,
\* every handle a successful GetOrCreateThreadIndex returns is in 1..128, and
\* no header word handed to the sink carries 0 in a StringIndex, ThreadIndex,
\* ThreadRef or string-reference field.
C7_HandleZeroNeverAppears ==
    \A i \in DOMAIN calls :
        /\ (calls[i].call.op = "GetOrCreateStringIndex" /\ calls[i].ret = 0)
           => calls[i].out \in 1..StringTableSize
        /\ (calls[i].call.op = "GetOrCreateThreadIndex" /\ calls[i].ret = 0)
           => calls[i].out \in 1..ThreadTableSize
        /\ \A j \in DOMAIN calls[i].log :
               calls[i].log[j].val.w \in {"record", "arg"}
               => 0 \notin HandlesOf(calls[i].log[j].val)

\* With the string table full, a lookup matched slot 0 and returned handle 1.
C7_Witness ==
    /\ numStringRecords >= StringTableSize
    /\ calls # <<>>
    /\ calls[Len(calls)].call.op = "GetOrCreateStringIndex"
    /\ calls[Len(calls)].ret = 0 /\ calls[Len(calls)].out = 1
    /\ calls[Len(calls)].log = <<>>
    /\ stringTable[0] = XXH3_64bits(calls[Len(calls)].call.str)

-----------------------------------------------------------------------------
(* The record encoders.  SpecEnc calls each public operation on a writer as    *)
(* constructed, with inputs at and around the limits of the format, with sinks *)
(* that fail, and under the builds the undefined behaviour of the code admits. *)

\* A string of n bytes.
StrOfLen(n) == LongBase + n

\* The sinks: one that accepts everything, and sinks that fail their first,
\* second or third call with a positive or a negative value.
EncSinks ==
    {[failAt |-> 0, err |-> 0]}
    \cup {[failAt |-> n, err |-> e] : n \in 1..3, e \in {SinkError, -1}}

\* The builds: what a store past the end of the hex staging buffer does and
\* what an uninitialised headerAndValueSizeInWords holds.
EncBuilds == {[ub |-> u, uninit |-> x] : u \in {"benign", "abort"},
                                         x \in {0, UInt16Mod - 1}}

DefaultBuild == [ub |-> "benign", uninit |-> 0]

\* The sinks of the events: those, and sinks that accept the three binding
\* records of a new category, name and thread (7 + 5 + 3 calls) and fail the
\* event's header, its timestamp or what follows them.
EncEventSinks ==
    EncSinks \cup {[failAt |-> n, err |-> SinkError] : n \in 16..19}

EncMachine(sink, build) == Machine(sink.failAt, sink.err, build.ub, build.uninit)

\* Lengths of strings handed to the string table, of provider names, of blobs.
EncStrLens == {0, 5, 8, 32752, 32753, 32760, 32761, 32766, 32767, 32768}
EncProviderNameLens == {0, 5, 8, 247, 248, 249, 255, 256}
EncBlobLens == {0, 12, 16, 32752, 32760, 32761, 32767, 32768, kMaxBlobLength,
                kMaxBlobLength + 1}

\* Argument names: inline (4 bytes), indexed.
EncInlineName == ArgName(4, FALSE)
EncIndexedName == ArgName(6, TRUE)

\* One argument of every type of the enumeration but String.
EncScalarTypes == <<AT_Null, AT_Int32, AT_UInt32, AT_Int64, AT_UInt64,
                    AT_Double, AT_Pointer, AT_KOID, AT_Bool>>

EncScalarArgs ==
    [i \in DOMAIN EncScalarTypes |->
        RecordArgument(IF i % 2 = 0 THEN EncInlineName ELSE EncIndexedName,
                       ScalarValue(EncScalarTypes[i], i))]

\* k Null arguments with inline names.
EncNullArgs(k) ==
    [i \in 1..k |-> RecordArgument(EncInlineName, ScalarValue(AT_Null, 0))]

\* A type tag outside the enumeration.
EncBadType == AT_Bool + 1

EncArgLists ==
    {<<>>, EncScalarArgs, EncNullArgs(FXT_MAX_NUM_ARGS),
     EncNullArgs(FXT_MAX_NUM_ARGS + 1),
     <<RecordArgument(EncInlineName, ScalarValue(EncBadType, 0))>>,
     <<RecordArgument(EncIndexedName, StringValue(7, TRUE))>>,
     <<RecordArgument(EncIndexedName, StringValue(StrOfLen(16376), FALSE)),
       RecordArgument(EncIndexedName, StringValue(StrOfLen(16368), FALSE))>>}
    \cup {<<RecordArgument(ArgName(StrOfLen(n), FALSE), ScalarValue(AT_Int64, 9))>> :
            n \in {0, MaxInlineStrLen, MaxInlineStrLen + 1}}
    \cup {<<RecordArgument(EncIndexedName, StringValue(StrOfLen(n), FALSE))>> :
            n \in {0, 5, 32736, 32744, MaxInlineStrLen, MaxInlineStrLen + 1}}
    \cup {<<RecordArgument(EncInlineName, HexArray(9, n))>> :
            n \in {0, 4, 128, 129, 130, 16383, 16384}}

\* The argument lists of the operations other than the events.
EncFewArgLists ==
    {<<>>, EncScalarArgs, EncNullArgs(FXT_MAX_NUM_ARGS),
     EncNullArgs(FXT_MAX_NUM_ARGS + 1),
     <<RecordArgument(EncIndexedName, StringValue(StrOfLen(32744), FALSE))>>,
     <<RecordArgument(EncInlineName, HexArray(9, 130))>>}
    \cup {<<RecordArgument(ArgName(StrOfLen(n), FALSE), ScalarValue(AT_Int64, 9))>> :
            n \in {MaxInlineStrLen, MaxInlineStrLen + 1}}

EventTypes == ET_Instant..ET_FlowEnd

\* The uint8_t outgoing thread states and the uint16_t cpu numbers of the
\* context switches: values at and around the limit of the 4-bit field.
EncThreadStates == {0, 1, 7, 15, 16, 17, 128, 255}
EncCpuNumbers == {3, UInt16Mod - 1}

\* The state of SpecEnc after an operation whose result is r.
EncCommit(r, call, strs, thrs) ==
    Commit(r, call, IF "out" \in DOMAIN r THEN r.out ELSE Unset,
           HistAfterUse(strHist, strs), HistAfterUse(thrHist, thrs))

EncWriteMagicNumberRecord(sink) ==
    /\ Len(calls) < MaxEncOps
    /\ EncCommit(WriteMagicNumberRecord(EncMachine(sink, DefaultBuild)),
                 [op |-> "WriteMagicNumberRecord", sink |-> sink], {}, {})

EncAddProviderInfoRecord(providerID, nameLen, sink) ==
    /\ Len(calls) < MaxEncOps
    /\ EncCommit(AddProviderInfoRecord(EncMachine(sink, DefaultBuild), providerID,
                                       StrOfLen(nameLen)),
                 [op |-> "AddProviderInfoRecord", providerID |-> providerID,
                  providerName |-> StrOfLen(nameLen), sink |-> sink], {}, {})

EncAddProviderSectionRecord(providerID, sink) ==
    /\ Len(calls) < MaxEncOps
    /\ EncCommit(AddProviderSectionRecord(EncMachine(sink, DefaultBuild), providerID),
                 [op |-> "AddProviderSectionRecord", providerID |-> providerID,
                  sink |-> sink], {}, {})

EncAddProviderEventRecord(providerID, eventType, sink) ==
    /\ Len(calls) < MaxEncOps
    /\ EncCommit(AddProviderEventRecord(EncMachine(sink, DefaultBuild), providerID,
                                        eventType),
                 [op |-> "AddProviderEventRecord", providerID |-> providerID,
                  eventType |-> eventType, sink |-> sink], {}, {})

EncWriterAddProviderEventRecord(providerID, eventType, sink) ==
    /\ Len(calls) < MaxEncOps
    /\ EncCommit(Writer_AddProviderEventRecord(EncMachine(sink, DefaultBuild),
                                               providerID, eventType),
                 [op |-> "Writer::AddProviderEventRecord",
                  providerID |-> providerID, eventType |-> eventType,
                  sink |-> sink], {}, {})

EncAddInitializationRecord(numTicksPerSecond, sink) ==
    /\ Len(calls) < MaxEncOps
    /\ EncCommit(AddInitializationRecord(EncMachine(sink, DefaultBuild),
                                         numTicksPerSecond),
                 [op |-> "AddInitializationRecord",
                  numTicksPerSecond |-> numTicksPerSecond, sink |-> sink], {}, {})

EncGetOrCreateStringIndex(strLen, sink) ==
    /\ Len(calls) < MaxEncOps
    /\ EncCommit(GetOrCreateStringIndex(EncMachine(sink, DefaultBuild),
                                        StrOfLen(strLen)),
                 [op |-> "GetOrCreateStringIndex", str |-> StrOfLen(strLen),
                  sink |-> sink], {StrOfLen(strLen)}, {})

EncGetOrCreateThreadIndex(thr, sink) ==
    /\ Len(calls) < MaxEncOps
    /\ EncCommit(GetOrCreateThreadIndex(EncMachine(sink, DefaultBuild),
                                        PairOf(thr).pid, PairOf(thr).tid),
                 [op |-> "GetOrCreateThreadIndex", processID |-> PairOf(thr).pid,
                  threadID |-> PairOf(thr).tid, sink |-> sink], {}, {thr})

EncSetProcessName(nameLen, sink) ==
    /\ Len(calls) < MaxEncOps
    /\ EncCommit(SetProcessName(EncMachine(sink, DefaultBuild), 1, StrOfLen(nameLen)),
                 [op |-> "SetProcessName", name |-> StrOfLen(nameLen), sink |-> sink],
                 {StrOfLen(nameLen)}, {})

EncSetThreadName(nameLen, sink) ==
    /\ Len(calls) < MaxEncOps
    /\ EncCommit(SetThreadName(EncMachine(sink, DefaultBuild), 1, 2, StrOfLen(nameLen)),
                 [op |-> "SetThreadName", name |-> StrOfLen(nameLen), sink |-> sink],
                 {StrOfLen(nameLen)}, {})

EncAddEvent(eventType, args, sink, build) ==
    /\ Len(calls) < MaxEncOps
    /\ EncCommit(AddEvent(EncMachine(sink, build), eventType, 3, 5, 1, 2, 1000, 77,
                          args),
                 [op |-> "AddEvent", eventType |-> eventType, category |-> 3,
                  name |-> 5, processID |-> 1, threadID |-> 2,
                  timestamp |-> 1000, extraWord |-> 77, args |-> args,
                  sink |-> sink, build |-> build],
                 {3, 5} \cup ArgStrings(args), {IndexOf(1, 2)})

EncAddBlobRecord(dataLen, sink) ==
    /\ Len(calls) < MaxEncOps
    /\ EncCommit(AddBlobRecord(EncMachine(sink, DefaultBuild), 5, 0, dataLen, 1),
                 [op |-> "AddBlobRecord", name |-> 5, dataLen |-> dataLen,
                  sink |-> sink], {5}, {})

EncAddUserspaceObjectRecord(args, sink, build) ==
    /\ Len(calls) < MaxEncOps
    /\ EncCommit(AddUserspaceObjectRecord(EncMachine(sink, build), 5, 1, 2, 4096, args),
                 [op |-> "AddUserspaceObjectRecord", name |-> 5, processID |-> 1,
                  threadID |-> 2, args |-> args, sink |-> sink, build |-> build],
                 {5} \cup ArgStrings(args), {IndexOf(1, 2)})

EncAddContextSwitchRecord(cpuNumber, outgoingThreadState, args, sink) ==
    /\ Len(calls) < MaxEncOps
    /\ EncCommit(AddContextSwitchRecord(EncMachine(sink, DefaultBuild), cpuNumber,
                                        outgoingThreadState, 45, 46, 1000, args),
                 [op |-> "AddContextSwitchRecord", cpuNumber |-> cpuNumber,
                  outgoingThreadState |-> outgoingThreadState, args |-> args,
                  sink |-> sink], ArgStrings(args), {})

EncAddFiberSwitchRecord(args, sink) ==
    /\ Len(calls) < MaxEncOps
    /\ EncCommit(AddFiberSwitchRecord(EncMachine(sink, DefaultBuild), 1, 2, 45, 46,
                                      1000, args),
                 [op |-> "AddFiberSwitchRecord", args |-> args, sink |-> sink],
                 ArgStrings(args), {})

EncAddThreadWakeupRecord(cpuNumber, args, sink) ==
    /\ Len(calls) < MaxEncOps
    /\ EncCommit(AddThreadWakeupRecord(EncMachine(sink, DefaultBuild), cpuNumber, 45,
                                       1000, args),
                 [op |-> "AddThreadWakeupRecord", cpuNumber |-> cpuNumber,
                  args |-> args, sink |-> sink], ArgStrings(args), {})

InitEnc ==
    \E garbage \in GarbageWords :
        StartAt(Constructed(garbage), <<0, 0>>) /\ writers = <<>>

NextEnc ==
    \/ \E sink \in EncSinks : EncWriteMagicNumberRecord(sink)
    \/ \E nameLen \in EncProviderNameLens, sink \in EncSinks :
           EncAddProviderInfoRecord(1234, nameLen, sink)
    \/ \E sink \in EncSinks : EncAddProviderSectionRecord(1234, sink)
    \/ \E eventType \in 0..1, sink \in EncSinks :
           EncAddProviderEventRecord(1234, eventType, sink)
    \/ \E eventType \in 0..1, sink \in EncSinks :
           EncWriterAddProviderEventRecord(1234, eventType, sink)
    \/ \E sink \in EncSinks : EncAddInitializationRecord(1000, sink)
    \/ \E strLen \in EncStrLens, sink \in EncSinks :
           EncGetOrCreateStringIndex(strLen, sink)
    \/ \E thr \in 0..1, sink \in EncSinks : EncGetOrCreateThreadIndex(thr, sink)
    \/ \E nameLen \in EncStrLens, sink \in EncSinks :
           EncSetProcessName(nameLen, sink)
    \/ \E nameLen \in EncStrLens, sink \in EncSinks :
           EncSetThreadName(nameLen, sink)
    \/ \E eventType \in EventTypes, args \in EncArgLists, sink \in EncEventSinks,
          build \in EncBuilds : EncAddEvent(eventType, args, sink, build)
    \/ \E dataLen \in EncBlobLens, sink \in EncSinks :
           EncAddBlobRecord(dataLen, sink)
    \/ \E args \in EncFewArgLists, sink \in EncSinks, build \in EncBuilds :
           EncAddUserspaceObjectRecord(args, sink, build)
    \/ \E cpuNumber \in EncCpuNumbers, outgoingThreadState \in EncThreadStates,
          args \in EncFewArgLists, sink \in EncSinks :
           EncAddContextSwitchRecord(cpuNumber, outgoingThreadState, args, sink)
    \/ \E args \in EncFewArgLists, sink \in EncSinks :
           EncAddFiberSwitchRecord(args, sink)
    \/ \E args \in EncFewArgLists, sink \in EncSinks :
           EncAddThreadWakeupRecord(3, args, sink)

SpecEnc == InitEnc /\ [][NextEnc]_vars

-----------------------------------------------------------------------------
(* SpecLim calls the same operations with the inputs at the limits the         *)
(* operations test (the number of arguments, the outgoing thread state, the    *)
(* lengths of inline names and values) and with sinks that fail, so that a     *)
(* second operation, on the tables the first one left, stays within reach.     *)

GoodSink == [failAt |-> 0, err |-> 0]

\* A sink that accepts everything, one that fails its first call and one that
\* fails its second.
LimSinks == {GoodSink, [failAt |-> 1, err |-> SinkError],
             [failAt |-> 2, err |-> -1]}

\* The sinks that fail a call of an event: one of its first three, or one of
\* the first four after the binding records of a new category, name, thread.
LimEventFailures ==
    {[failAt |-> n, err |-> SinkError] : n \in (1..3) \cup (16..19)}

\* Argument lists at the limit of the number of arguments.
LimCountArgLists == {EncNullArgs(FXT_MAX_NUM_ARGS), EncNullArgs(FXT_MAX_NUM_ARGS + 1)}

\* One argument with an inline name at and around the limit of its length.
LimNameArgLists ==
    {<<RecordArgument(ArgName(StrOfLen(n), FALSE), ScalarValue(AT_Int64, 9))>> :
        n \in {0, MaxInlineStrLen, MaxInlineStrLen + 1}}

\* One String argument with an inline or a hex-encoded value at and around
\* the limit of its length.
LimValueArgLists ==
    {<<RecordArgument(EncIndexedName, StringValue(StrOfLen(n), FALSE))>> :
        n \in {5, MaxInlineStrLen, MaxInlineStrLen + 1}}
    \cup {<<RecordArgument(EncInlineName, HexArray(9, n))>> :
            n \in {4, 130, 16383, 16384}}

\* The values whose encoding stores past the staging buffer.
LimLongHexArgLists ==
    {<<RecordArgument(EncInlineName, HexArray(9, n))>> : n \in {130, 16383}}

\* Arguments of both kinds of name and of value, indexed and inline, one
\* indexed name twice.
LimMixedArgs ==
    <<RecordArgument(EncIndexedName, StringValue(7, TRUE)),
      RecordArgument(EncInlineName, StringValue(10, FALSE)),
      RecordArgument(EncIndexedName, ScalarValue(AT_Int64, 9)),
      RecordArgument(ArgName(9, TRUE), ScalarValue(AT_Bool, 1))>>

\* The calls of the events: (event type, arguments, sink, build).
LimEventCalls ==
    {[eventType |-> t, args |-> a, sink |-> GoodSink, build |-> DefaultBuild] :
        t \in {ET_Counter, ET_DurationBegin}, a \in {EncScalarArgs, LimMixedArgs}}
    \cup {[eventType |-> t, args |-> a, sink |-> GoodSink, build |-> DefaultBuild] :
            t \in EventTypes, a \in LimCountArgLists}
    \cup {[eventType |-> ET_Counter, args |-> a, sink |-> f, build |-> DefaultBuild] :
            a \in {<<>>, EncScalarArgs}, f \in LimEventFailures}
    \cup {[eventType |-> ET_Instant, args |-> a, sink |-> GoodSink,
           build |-> DefaultBuild] :
            a \in {<<>>} \cup LimNameArgLists \cup LimValueArgLists}
    \cup {[eventType |-> ET_Instant, args |-> a, sink |-> GoodSink,
           build |-> [ub |-> "abort", uninit |-> 0]] : a \in LimLongHexArgLists}

\* The calls of the other operations that take arguments: (arguments, sink).
LimArgCalls ==
    {[args |-> a, sink |-> GoodSink] :
        a \in {<<>>} \cup LimCountArgLists \cup LimNameArgLists \cup LimValueArgLists}
    \cup {[args |-> EncScalarArgs, sink |-> f] : f \in LimSinks}

\* The calls of the context switch: (state, cpu number, arguments, sink).
LimContextSwitchCalls ==
    {[outgoingThreadState |-> st, cpuNumber |-> c, args |-> <<>>, sink |-> GoodSink] :
        st \in EncThreadStates, c \in EncCpuNumbers}
    \cup {[outgoingThreadState |-> st, cpuNumber |-> 3, args |-> x.args,
           sink |-> x.sink] : st \in {15, 16}, x \in LimArgCalls}

NextLim ==
    \/ \E sink \in LimSinks : EncWriteMagicNumberRecord(sink)
    \/ \E sink \in LimSinks : EncAddProviderInfoRecord(1234, 5, sink)
    \/ \E sink \in LimSinks : EncAddProviderSectionRecord(1234, sink)
    \/ \E sink \in LimSinks : EncAddProviderEventRecord(1234, 0, sink)
    \/ \E sink \in LimSinks : EncWriterAddProviderEventRecord(1234, 0, sink)
    \/ \E sink \in LimSinks : EncAddInitializationRecord(1000, sink)
    \/ \E sink \in LimSinks : EncGetOrCreateStringIndex(5, sink)
    \/ \E sink \in LimSinks : EncGetOrCreateThreadIndex(1, sink)
    \/ \E sink \in LimSinks : EncSetProcessName(5, sink)
    \/ \E sink \in LimSinks : EncSetThreadName(5, sink)
    \/ \E x \in LimEventCalls : EncAddEvent(x.eventType, x.args, x.sink, x.build)
    \/ \E sink \in LimSinks : EncAddBlobRecord(12, sink)
    \/ \E x \in LimArgCalls : EncAddUserspaceObjectRecord(x.args, x.sink, DefaultBuild)
    \/ \E x \in LimContextSwitchCalls :
           EncAddContextSwitchRecord(x.cpuNumber, x.outgoingThreadState, x.args,
                                     x.sink)
    \/ \E x \in LimArgCalls : EncAddFiberSwitchRecord(x.args, x.sink)
    \/ \E x \in LimArgCalls : EncAddThreadWakeupRecord(3, x.args, x.sink)

SpecLim == InitEnc /\ [][NextLim]_vars

-----------------------------------------------------------------------------
(* Two writers.  SpecTwo constructs two writers, each with a sink of its own,  *)
(* and lets each run operations; a step is one operation's next call of its    *)
(* writer's sink, so the calls of the two writers interleave in every order.   *)
(* Every function of writer.cpp reads and writes the tables and the counters   *)
(* through its Writer argument and reaches the sink through its writeFunc and  *)
(* userContext; the file has no variable of static storage other than the      *)
(* constant hexChars.                                                          *)

TwoWriters == {1, 2}

\* The sinks of the two writers: that of writer 1 succeeds, that of writer 2
\* fails the first or the second call it receives and succeeds again after
\* it.
TwoSinks ==
    {[w \in TwoWriters |->
         IF w = 1 THEN GoodSink ELSE [failAt |-> n, err |-> SinkError]] :
        n \in 1..2}

\* What the uninitialised tables of each writer hold: zeroes in writer 1, in
\* writer 2 the hashes of the string and of the thread of TwoOps.
TwoGarbage ==
    [w \in TwoWriters |->
        IF w = 1 THEN [s |-> 0, t |-> 0]
        ELSE [s |-> XXH3_64bits(0), t |-> XXH3_pair(PairOf(0).pid, PairOf(0).tid)]]

\* The operations a writer runs.
TwoOps ==
    {[op |-> "GetOrCreateStringIndex", str |-> 0],
     [op |-> "GetOrCreateThreadIndex", processID |-> PairOf(0).pid,
      threadID |-> PairOf(0).tid],
     [op |-> "AddEvent", eventType |-> ET_Instant, category |-> 0, name |-> 16,
      processID |-> PairOf(0).pid, threadID |-> PairOf(0).tid,
      timestamp |-> 1000, args |-> <<>>]}

\* The Writer with a seeded fault: nextStringIndex is one counter shared by
\* the writers, that of writer 1.
WriterOf_SharedNextStringIndex(w) ==
    [writers[w].m EXCEPT !.nextStringIndex = writers[1].m.nextStringIndex]

\* The Writer an operation of writer w is called with.
WriterOf(w) == writers[w].m

\* A writer on its sink, base calls of which were made before the operation:
\* the sink fails the operation's call number failAt - base.
OnSink(m, sink, base) ==
    [m EXCEPT !.log = <<>>,
              !.failAt = IF sink.failAt > base THEN sink.failAt - base ELSE 0,
              !.err = sink.err]

\* The operation op on the writer m: its result and the calls of the sink.
RunOp(m, op) ==
    IF op.op = "GetOrCreateStringIndex" THEN GetOrCreateStringIndex(m, op.str)
    ELSE IF op.op = "GetOrCreateThreadIndex"
    THEN GetOrCreateThreadIndex(m, op.processID, op.threadID)
    ELSE AddEvent(m, op.eventType, op.category, op.name, op.processID,
                  op.threadID, op.timestamp, 0, op.args)

\* What a call returns to its caller: the code and the handle, if any.
Returned(r) == [ret |-> r.ret, out |-> IF "out" \in DOMAIN r THEN r.out ELSE Unset]

\* The operation writer w is in, k calls of its sink made.
Current(w) ==
    RunOp(OnSink(WriterOf(w), writers[w].sink,
                 Len(writers[w].stream) - writers[w].k),
          writers[w].ops[Len(writers[w].ops)])

\* Writer w is called with op.
TwoBegin(w, op) ==
    /\ ~writers[w].busy
    /\ Len(writers[w].ops) < MaxTwoOps
    /\ writers' = [writers EXCEPT ![w].ops = Append(@, op), ![w].busy = TRUE,
                                  ![w].k = 0]
    /\ UNCHANGED <<stringTable, threadTable, nextStringIndex, nextThreadIndex,
                   strBinding, thrBinding, numStringRecords, numThreadRecords,
                   strHist, thrHist, calls>>

\* The operation of writer w makes its next call of the sink of w.
TwoSinkCall(w) ==
    /\ writers[w].busy
    /\ writers[w].k < Len(Current(w).m.log)
    /\ writers' = [writers EXCEPT
                       ![w].stream = Append(@, Current(w).m.log[writers[w].k + 1]),
                       ![w].k = @ + 1]
    /\ UNCHANGED <<stringTable, threadTable, nextStringIndex, nextThreadIndex,
                   strBinding, thrBinding, numStringRecords, numThreadRecords,
                   strHist, thrHist, calls>>

\* The operation of writer w returns, its stores to the Writer made.
TwoReturn(w) ==
    /\ writers[w].busy
    /\ writers[w].k >= Len(Current(w).m.log)
    /\ writers' = [writers EXCEPT
                       ![w].m = OnSink(Current(w).m, GoodSink, 0),
                       ![w].rets = Append(@, Returned(Current(w))),
                       ![w].busy = FALSE, ![w].k = 0]
    /\ UNCHANGED <<stringTable, threadTable, nextStringIndex, nextThreadIndex,
                   strBinding, thrBinding, numStringRecords, numThreadRecords,
                   strHist, thrHist, calls>>

\* Two writers as constructed.
InitTwo ==
    \E sinks \in TwoSinks :
        /\ StartAt(Constructed(TwoGarbage[1]), <<0, 0>>)
        /\ writers = [w \in TwoWriters |->
                         [m |-> Constructed(TwoGarbage[w]).m, sink |-> sinks[w],
                          ops |-> <<>>, busy |-> FALSE, k |-> 0,
                          stream |-> <<>>, rets |-> <<>>]]

NextTwo ==
    \/ \E w \in TwoWriters, op \in TwoOps : TwoBegin(w, op)
    \/ \E w \in TwoWriters : TwoSinkCall(w)
    \/ \E w \in TwoWriters : TwoReturn(w)

SpecTwo == InitTwo /\ [][NextTwo]_vars

-----------------------------------------------------------------------------
(* The claims about the record encoders.                                       *)

\* C8: for every record emitted by an operation that returns 0, the
\* RecordSize field of its header times 8 is the number of bytes handed to
\* the sink for that record.
C8_RecordSizeIsBytesWritten ==
    \A i \in DOMAIN calls :
        calls[i].ret = 0 =>
            \A k \in DOMAIN calls[i].recs :
                calls[i].recs[k].RecordSize * 8 = calls[i].recs[k].bytes

\* C9: an event record emitted with k arguments has ArgumentCount k, and the
\* ArgumentSize fields of its k argument headers add up to its RecordSize
\* minus 2 minus the extra words of its subtype.
C9_EventArgumentSizesAddUp ==
    \A i \in DOMAIN calls :
        (calls[i].call.op = "AddEvent" /\ calls[i].ret = 0) =>
            \A k \in DOMAIN calls[i].recs :
                calls[i].recs[k].Type = RT_Event =>
                    /\ calls[i].recs[k].ArgumentCount = Len(calls[i].call.args)
                    /\ calls[i].recs[k].nargs = Len(calls[i].call.args)
                    /\ calls[i].recs[k].argWords =
                           calls[i].recs[k].RecordSize - 2
                           - ExtraSizeInWords(calls[i].recs[k].EventType)

\* The error table.
ErrorTable ==
    {FXT_ERR_WRITE_TO_STREAM_FAILED, FXT_ERR_STR_TOO_LONG,
     FXT_ERR_WRITE_LENGTH_MISMATCH, FXT_ERR_DATA_TOO_LONG,
     FXT_ERR_INVALID_OUTGOING_THREAD_STATE, FXT_ERR_RECORD_SIZE_TOO_LARGE,
     FXT_ERR_INVALID_ARG_TYPE, FXT_ERR_ARG_NAME_TOO_LONG,
     FXT_ERR_ARG_STR_VALUE_TOO_LONG, FXT_ERR_TOO_MANY_ARGS}

SinkFailed(log) == \E j \in DOMAIN log : log[j].ret # 0

\* C10: every operation that returns returns 0 or a code of the error table,
\* and WriteToStreamFailed whenever a call of the sink returned non-zero.
C10_ResultIsInErrorTable ==
    \A i \in DOMAIN calls :
        calls[i].ret # ProcessAborted =>
            /\ calls[i].ret \in {0} \cup ErrorTable
            /\ SinkFailed(calls[i].log)
               => calls[i].ret = FXT_ERR_WRITE_TO_STREAM_FAILED

\* C11: once a call of the sink has returned non-zero the operation makes no
\* further call of the sink and returns a non-zero status: the failed call is
\* the last of the operation's log, so nothing of the record follows it, an
\* event's extra word included.
C11_StopsAtFirstSinkFailure ==
    \A i \in DOMAIN calls :
        \A j \in DOMAIN calls[i].log :
            calls[i].log[j].ret # 0
            => /\ j = Len(calls[i].log)
               /\ calls[i].ret # 0

\* The sink failed the header, the timestamp or an argument of an event that
\* has an extra word, after it had accepted the binding records.
C11_Witness ==
    \E i \in DOMAIN calls :
        /\ calls[i].call.op = "AddEvent"
        /\ ExtraSizeInWords(calls[i].call.eventType) = 1
        /\ calls[i].ret = SinkError
        /\ Len(calls[i].log) > 16
        /\ calls[i].log[16].val.w = "record"
        /\ calls[i].log[16].val.Type = RT_Event
        /\ calls[i].log[Len(calls[i].log)].ret # 0

\* The operations that take an argument list.
ArgListOps == {"AddEvent", "AddUserspaceObjectRecord", "AddContextSwitchRecord",
               "AddFiberSwitchRecord", "AddThreadWakeupRecord"}

\* The call a step has appended to calls.
NewCall == calls'[Len(calls')]

\* The other inputs of a call are valid: the context switch's state is
\* within its 4 bits.
OtherwiseValid(call) ==
    call.op = "AddContextSwitchRecord" => call.outgoingThreadState <= 15

\* Every argument is of a type that is not String and has a name within the
\* limit of an inline name.
ScalarArgs(args) ==
    \A k \in DOMAIN args :
        /\ args[k].value.type \in OneWordTypes \cup TwoWordTypes
        /\ args[k].name.nameLen <= MaxInlineStrLen

\* The records of a call that carry its arguments: those that are not the
\* binding records of its strings and its thread.
CarryingRecords(c) ==
    {k \in DOMAIN c.recs : c.recs[k].Type \notin {RT_String, RT_Thread}}

C12_Step ==
    (Len(calls') = Len(calls) + 1 /\ NewCall.call.op \in ArgListOps
     /\ OtherwiseValid(NewCall.call))
    => /\ Len(NewCall.call.args) <= FXT_MAX_NUM_ARGS
          => /\ NewCall.ret # FXT_ERR_TOO_MANY_ARGS
             /\ (ScalarArgs(NewCall.call.args) /\ NewCall.call.sink.failAt = 0)
                => /\ NewCall.ret = 0
                   /\ \E k \in CarryingRecords(NewCall) :
                          NewCall.recs[k].ArgumentCount = Len(NewCall.call.args)
       /\ Len(NewCall.call.args) > FXT_MAX_NUM_ARGS
          => /\ NewCall.ret = FXT_ERR_TOO_MANY_ARGS
             /\ NewCall.log = <<>>
             /\ UNCHANGED <<stringTable, threadTable, nextStringIndex,
                            nextThreadIndex>>

\* C12: every operation that takes an argument list accepts up to 15
\* arguments (it returns 0 and emits a record with that argument count when
\* its other inputs are valid) and returns TooManyArgs for 16 or more, with
\* nothing handed to the sink and both tables and both counters unchanged.
C12_TooManyArgs == [][C12_Step]_vars

\* An operation was called with 16 arguments and returned TooManyArgs.
C12_Witness ==
    \E i \in DOMAIN calls :
        /\ calls[i].call.op \in ArgListOps
        /\ Len(calls[i].call.args) = FXT_MAX_NUM_ARGS + 1
        /\ calls[i].ret = FXT_ERR_TOO_MANY_ARGS

\* The header words of a record type that an operation handed to the sink.
HeadersOf(c, type) ==
    {j \in DOMAIN c.log : /\ c.log[j].val.w = "record"
                          /\ c.log[j].val.Type = type}

\* C13: AddContextSwitchRecord returns InvalidOutgoingThreadState for every
\* outgoingThreadState above 15, before anything is handed to the sink, and
\* accepts every state in 0..15; the header of an accepted call carries the
\* state in [36..39], cpuNumber in [20..35] and 1 in [60..63].
C13_OutgoingThreadState ==
    \A i \in DOMAIN calls :
        calls[i].call.op = "AddContextSwitchRecord" =>
            /\ calls[i].call.outgoingThreadState > 15
               => /\ calls[i].ret = FXT_ERR_INVALID_OUTGOING_THREAD_STATE
                  /\ calls[i].log = <<>>
            /\ calls[i].call.outgoingThreadState <= 15
               => /\ calls[i].ret # FXT_ERR_INVALID_OUTGOING_THREAD_STATE
                  /\ \A j \in HeadersOf(calls[i], RT_Scheduling) :
                         /\ calls[i].log[j].val.OutgoingThreadState
                                = calls[i].call.outgoingThreadState
                         /\ calls[i].log[j].val.CpuNumber = calls[i].call.cpuNumber
                         /\ calls[i].log[j].val.EventType = 1
                  /\ (/\ ScalarArgs(calls[i].call.args)
                      /\ Len(calls[i].call.args) <= FXT_MAX_NUM_ARGS
                      /\ calls[i].call.sink.failAt = 0)
                     => /\ calls[i].ret = 0
                        /\ HeadersOf(calls[i], RT_Scheduling) # {}

\* A context switch with outgoing thread state 15 was emitted.
C13_Witness ==
    \E i \in DOMAIN calls :
        /\ calls[i].call.op = "AddContextSwitchRecord"
        /\ calls[i].call.outgoingThreadState = 15
        /\ calls[i].ret = 0
        /\ \E j \in HeadersOf(calls[i], RT_Scheduling) :
               calls[i].log[j].val.OutgoingThreadState = 15

\* The calls j+2.. of a log are count calls of one zero byte each, and the
\* last calls of the log.
ZeroPadded(log, j, count) ==
    /\ Len(log) = j + 1 + count
    /\ \A k \in (j + 2)..Len(log) : log[k].val.w = "zero" /\ log[k].len = 1

\* C14: with a sink that succeeds, AddBlobRecord returns 0 for every dataLen
\* up to 0x7FFFFF and DataTooLong for every greater one; the BlobSize field
\* of an accepted blob's header is dataLen and its payload is the dataLen
\* blob bytes followed by zero bytes up to the next multiple of 8.
C14_BlobLength ==
    \A i \in DOMAIN calls :
        (calls[i].call.op = "AddBlobRecord" /\ calls[i].call.sink.failAt = 0) =>
            /\ calls[i].call.dataLen > kMaxBlobLength
               => calls[i].ret = FXT_ERR_DATA_TOO_LONG
            /\ calls[i].call.dataLen <= kMaxBlobLength
               => /\ calls[i].ret = 0
                  /\ HeadersOf(calls[i], RT_Blob) # {}
                  /\ \A j \in HeadersOf(calls[i], RT_Blob) :
                         /\ calls[i].log[j].val.BlobSize = calls[i].call.dataLen
                         /\ calls[i].log[j + 1].val.w = "blob"
                         /\ calls[i].log[j + 1].len = calls[i].call.dataLen
                         /\ ZeroPadded(calls[i].log, j,
                                       Pad8(calls[i].call.dataLen)
                                       - calls[i].call.dataLen)

\* C15: with a sink that succeeds, GetOrCreateStringIndex on a string that is
\* not in the table returns StrTooLong exactly when the string is longer than
\* 0x7FFE bytes; a string of 0 to 0x7FFE bytes is accepted and its String
\* record carries its length in StringLength.
C15_StringLengthLimit ==
    \A i \in DOMAIN calls :
        (/\ calls[i].call.op = "GetOrCreateStringIndex"
         /\ calls[i].call.sink.failAt = 0) =>
            /\ strlen(calls[i].call.str) > MaxStringRecordPaddedLen - 1
               => calls[i].ret = FXT_ERR_STR_TOO_LONG
            /\ strlen(calls[i].call.str) <= MaxStringRecordPaddedLen - 1
               => /\ calls[i].ret = 0
                  /\ HeadersOf(calls[i], RT_String) # {}
                  /\ \A j \in HeadersOf(calls[i], RT_String) :
                         calls[i].log[j].val.StringLength
                             = strlen(calls[i].call.str)

\* ceil(n / 8)
WordsOf(n) == (n + 7) \div 8

\* C16: for every provider name of L < 256 bytes AddProviderInfoRecord returns
\* 0 and hands the sink 8 * (1 + ceil(L/8)) bytes: a header with record type
\* 0, RecordSize 1 + ceil(L/8), MetadataType 1, the provider id, NameLength L
\* and no other bit set, then the L name bytes, then zero bytes up to the
\* 8-byte boundary.
C16_ProviderInfoRecord ==
    \A i \in DOMAIN calls :
        (/\ calls[i].call.op = "AddProviderInfoRecord"
         /\ calls[i].call.sink.failAt = 0
         /\ strlen(calls[i].call.providerName) < 256) =>
            /\ calls[i].ret = 0
            /\ Len(calls[i].log) >= 2
            /\ calls[i].log[1].val =
                   [w |-> "record", Type |-> 0,
                    RecordSize |-> 1 + WordsOf(strlen(calls[i].call.providerName)),
                    MetadataType |-> 1,
                    ProviderID |-> calls[i].call.providerID,
                    NameLength |-> strlen(calls[i].call.providerName)]
            /\ calls[i].log[2].val = [w |-> "str", str |-> calls[i].call.providerName]
            /\ calls[i].log[2].len = strlen(calls[i].call.providerName)
            /\ ZeroPadded(calls[i].log, 1,
                          8 * WordsOf(strlen(calls[i].call.providerName))
                          - strlen(calls[i].call.providerName))

\* C17: AddProviderEventRecord, the free function and the member form, emits
\* exactly one header word: record type 0, RecordSize 1, MetadataType 3, the
\* provider id, the event type, and no other bit set.
C17_ProviderEventRecord ==
    \A i \in DOMAIN calls :
        calls[i].call.op \in {"AddProviderEventRecord",
                              "Writer::AddProviderEventRecord"} =>
            /\ Len(calls[i].log) = 1
            /\ calls[i].log[1].kind = "word"
            /\ calls[i].log[1].val =
                   [w |-> "record", Type |-> 0, RecordSize |-> 1,
                    MetadataType |-> 3,
                    ProviderID |-> calls[i].call.providerID,
                    Event |-> calls[i].call.eventType]

C18_Step ==
    (Len(calls') = Len(calls) + 1 /\ NewCall.call.op = "WriteMagicNumberRecord")
    => /\ Len(NewCall.log) = 1
       /\ NewCall.log[1].len = 8
       /\ NewCall.log[1].val.bytes = <<16, 0, 4, 70, 120, 84, 22, 0>>
       /\ \E b \in {NewCall.log[1].val.bytes} :
              \* record type [0..3], RecordSize [4..15]
              /\ b[1] % 16 = RT_Metadata
              /\ (b[1] \div 16) + 16 * b[2] = 1
              \* MetadataType [16..19], TraceInfoType [20..23]
              /\ b[3] % 16 = 4
              /\ b[3] \div 16 = 0
              \* the magic 0x16547846 [24..55], zero in [56..63]
              /\ b[4] + 256 * b[5] + 65536 * b[6] + 16777216 * b[7] = 374634566
              /\ b[8] = 0
       /\ UNCHANGED <<stringTable, threadTable, nextStringIndex, nextThreadIndex>>

\* C18: in any writer state WriteMagicNumberRecord hands the sink exactly the
\* 8 bytes 10 00 04 46 78 54 16 00 (a metadata record of one word with
\* MetadataType 4, TraceInfoType 0, the magic 0x16547846 in [24..55] and zero
\* in [56..63]) and leaves both intern tables and their counters unchanged;
\* called first, its log is the beginning of the stream.
C18_MagicNumberRecord == [][C18_Step]_vars

\* The magic number record was written by a writer whose string table had
\* wrapped, after another operation.
C18_Witness ==
    /\ numStringRecords > StringTableSize
    /\ Len(calls) = 2
    /\ calls[1].call.op = "GetOrCreateStringIndex"
    /\ calls[2].call.op = "WriteMagicNumberRecord"
    /\ calls[2].ret = 0
    /\ calls[2].recs[1].bytes = 8

\* The positions of the argument headers in a log, in order.
ArgHeaders(log) ==
    SelectSeq([j \in 1..Len(log) |-> j], LAMBDA j : log[j].val.w = "arg")

\* The calls after the argument header at j are the len bytes of str and
\* then zero bytes up to the 8-byte boundary.
InlineBytesAt(log, j, str, len) ==
    /\ Len(log) >= j + 1 + (Pad8(len) - len)
    /\ log[j + 1].val = [w |-> "str", str |-> str]
    /\ log[j + 1].len = len
    /\ \A k \in (j + 2)..(j + 1 + (Pad8(len) - len)) :
           log[k].val.w = "zero" /\ log[k].len = 1

\* An operation called with an argument list within the count limit, on a
\* sink that succeeds.
ArgsCall(c) ==
    /\ c.call.op \in ArgListOps
    /\ OtherwiseValid(c.call)
    /\ Len(c.call.args) <= FXT_MAX_NUM_ARGS
    /\ c.call.sink.failAt = 0

\* C19: an operation whose argument list has an inline name longer than
\* 0x7FFF bytes (the arguments before it being valid) returns ArgNameTooLong
\* and does not emit the record that would carry the argument; an inline
\* name of up to 0x7FFF bytes is accepted and emitted: name reference
\* 0x8000 | nameLen, then the name bytes zero-padded to 8 bytes.
C19_InlineNameLimit ==
    \A i \in DOMAIN calls :
        ArgsCall(calls[i]) =>
            /\ (\E k \in DOMAIN calls[i].call.args :
                    /\ ~calls[i].call.args[k].name.useStringTable
                    /\ calls[i].call.args[k].name.nameLen > 32767
                    /\ ScalarArgs(SubSeq(calls[i].call.args, 1, k - 1)))
               => /\ calls[i].ret = FXT_ERR_ARG_NAME_TOO_LONG
                  /\ CarryingRecords(calls[i]) = {}
            /\ ScalarArgs(calls[i].call.args)
               => /\ calls[i].ret = 0
                  /\ Len(ArgHeaders(calls[i].log)) = Len(calls[i].call.args)
                  /\ \A k \in DOMAIN calls[i].call.args :
                         ~calls[i].call.args[k].name.useStringTable
                         => /\ calls[i].log[ArgHeaders(calls[i].log)[k]].val.NameRef
                                   = 32768 + calls[i].call.args[k].name.nameLen
                            /\ InlineBytesAt(calls[i].log,
                                             ArgHeaders(calls[i].log)[k],
                                             calls[i].call.args[k].name.name,
                                             calls[i].call.args[k].name.nameLen)

\* An argument with an inline name of exactly 0x7FFF bytes was emitted.
C19_Witness ==
    \E i \in DOMAIN calls :
        /\ ArgsCall(calls[i])
        /\ calls[i].ret = 0
        /\ Len(calls[i].call.args) = 1
        /\ ~calls[i].call.args[1].name.useStringTable
        /\ calls[i].call.args[1].name.nameLen = 32767
        /\ Len(ArgHeaders(calls[i].log)) = 1
        /\ calls[i].log[ArgHeaders(calls[i].log)[1]].val.NameRef = 65535

\* The bytes a String value takes in the record, inline or hex-encoded.
ValueBytes(value) ==
    IF value.hexEncode THEN 2 * value.stringLen ELSE value.stringLen

\* Argument k of a call is a String argument whose value is not indexed, its
\* name is valid and the arguments before it are valid.
InlineStringArg(c, k) ==
    /\ c.call.args[k].value.type = AT_String
    /\ c.call.args[k].value.hexEncode \/ ~c.call.args[k].value.useStringTable
    /\ c.call.args[k].name.nameLen <= 32767
    /\ ScalarArgs(SubSeq(c.call.args, 1, k - 1))

\* C20: a String argument with an inline value of up to 0x7FFF bytes is
\* accepted and a longer one returns ArgStrValueTooLong; a hex-encoded value
\* is accepted exactly when twice its length is at most 0x7FFF and returns
\* ArgStrValueTooLong otherwise; a rejected argument's record is not emitted,
\* an accepted argument's header is, with value reference 0x8000 | length.
C20_StringValueLimit ==
    \A i \in DOMAIN calls :
        ArgsCall(calls[i]) =>
            \A k \in DOMAIN calls[i].call.args :
                InlineStringArg(calls[i], k) =>
                    /\ ValueBytes(calls[i].call.args[k].value) > 32767
                       => /\ calls[i].ret = FXT_ERR_ARG_STR_VALUE_TOO_LONG
                          /\ CarryingRecords(calls[i]) = {}
                    /\ ValueBytes(calls[i].call.args[k].value) <= 32767
                       => /\ calls[i].ret # FXT_ERR_ARG_STR_VALUE_TOO_LONG
                          /\ ~calls[i].call.args[k].value.hexEncode
                             => calls[i].ret = 0
                          /\ CarryingRecords(calls[i]) # {}
                          /\ Len(ArgHeaders(calls[i].log)) >= k
                          /\ calls[i].log[ArgHeaders(calls[i].log)[k]].val.ValueRef
                                 = 32768 + ValueBytes(calls[i].call.args[k].value)

\* A hex-encoded value of 0x3FFF bytes, the longest that is accepted, was
\* emitted.
C20_Witness ==
    \E i \in DOMAIN calls :
        /\ ArgsCall(calls[i])
        /\ Len(calls[i].call.args) = 1
        /\ calls[i].call.args[1].value.type = AT_String
        /\ calls[i].call.args[1].value.hexEncode
        /\ calls[i].call.args[1].value.stringLen = 16383
        /\ Len(ArgHeaders(calls[i].log)) = 1
        /\ calls[i].log[ArgHeaders(calls[i].log)[1]].val.ValueRef = 65534

\* The positions of the hex digit chunks in a log, in order.
HexChunks(log) ==
    SelectSeq([j \in 1..Len(log) |-> j], LAMBDA j : log[j].val.w = "hex")

\* The calls a name makes after the argument header: none for an indexed
\* name, the bytes and one call per zero byte for an inline one.
NameCalls(name) ==
    IF name.useStringTable THEN 0 ELSE 1 + (Pad8(name.nameLen) - name.nameLen)

\* Argument k of a call is the only argument and is a hex-encoded String
\* argument whose encoded length is within the limit.
HexArg(c, k) ==
    /\ Len(c.call.args) = 1
    /\ InlineStringArg(c, k)
    /\ c.call.args[k].value.hexEncode
    /\ ValueBytes(c.call.args[k].value) <= 32767

\* C21: for an accepted hex-encoded String argument of valueLen bytes the
\* sink receives, after the argument header and the name, exactly the
\* 2 * valueLen hex digits of the input bytes 0..valueLen-1 in input order
\* and then zero bytes up to the 8-byte boundary; the value reference is
\* 0x8000 | 2 * valueLen and the operation returns 0.
C21_HexDigits ==
    \A i \in DOMAIN calls :
        ArgsCall(calls[i]) =>
            \A k \in DOMAIN calls[i].call.args :
                HexArg(calls[i], k) =>
                    LET log == calls[i].log
                        value == calls[i].call.args[k].value
                        H == HexChunks(log)
                        p == ArgHeaders(log)[k] + NameCalls(calls[i].call.args[k].name)
                    IN  /\ calls[i].ret = 0
                        /\ Len(ArgHeaders(log)) = 1
                        /\ log[ArgHeaders(log)[k]].val.ValueRef
                               = 32768 + 2 * value.stringLen
                        /\ \A n \in DOMAIN H :
                               /\ H[n] = p + n
                               /\ log[H[n]].val.str = value.stringValue
                               /\ log[H[n]].len = 2 * log[H[n]].val.count
                               /\ log[H[n]].val.first
                                      = IF n = 1 THEN 0
                                        ELSE log[H[n - 1]].val.first
                                             + log[H[n - 1]].val.count
                        /\ IF H = <<>> THEN value.stringLen = 0
                           ELSE log[H[Len(H)]].val.first + log[H[Len(H)]].val.count
                                    = value.stringLen
                        /\ \A j \in (p + Len(H) + 1)..(p + Len(H) + Pad8(2 * value.stringLen) - 2 * value.stringLen) :
                               j <= Len(log) /\ log[j].val.w = "zero" /\ log[j].len = 1

\* The bytes the sink accepted in the calls lo..hi of a log.
RECURSIVE LogBytes(_, _, _)
LogBytes(log, lo, hi) ==
    IF lo > hi THEN 0
    ELSE (IF log[hi].ret = 0 THEN log[hi].len ELSE 0) + LogBytes(log, lo, hi - 1)

\* The words ProcessArgs computes for an argument of a valid type: the inline
\* name, the header, and the payload of the value.
PrecomputedWords(arg) ==
    (IF arg.name.useStringTable THEN 0 ELSE WordsOf(arg.name.nameLen))
    + 1
    + (IF arg.value.type \in TwoWordTypes THEN 1
       ELSE IF arg.value.type # AT_String THEN 0
       ELSE IF arg.value.hexEncode \/ ~arg.value.useStringTable
       THEN WordsOf(ValueBytes(arg.value))
       ELSE 0)

\* The pre-computed argument word sum of the first n arguments.
RECURSIVE PrecomputedSum(_, _)
PrecomputedSum(args, n) ==
    IF n = 0 THEN 0 ELSE PrecomputedSum(args, n - 1) + PrecomputedWords(args[n])

\* The bytes a call handed to the sink for its arguments: those from the
\* first argument header on, but for the extra word of an event.
ArgBytes(c) ==
    IF ArgHeaders(c.log) = <<>> THEN 0
    ELSE LogBytes(c.log, ArgHeaders(c.log)[1],
                  Len(c.log) - (IF c.call.op = "AddEvent" /\ c.ret = 0
                                THEN ExtraSizeInWords(c.call.eventType) ELSE 0))

\* C22: an operation that emits arguments returns 0 only if the bytes handed
\* to the sink for its arguments are 8 times the pre-computed argument word
\* sum, and it returns WriteLengthMismatch only if they are not.
C22_WrittenLengthChecked ==
    \A i \in DOMAIN calls :
        ArgsCall(calls[i]) =>
            /\ calls[i].ret = 0
               => ArgBytes(calls[i])
                      = 8 * PrecomputedSum(calls[i].call.args, Len(calls[i].call.args))
            /\ calls[i].ret = FXT_ERR_WRITE_LENGTH_MISMATCH
               => ArgBytes(calls[i])
                      # 8 * PrecomputedSum(calls[i].call.args, Len(calls[i].call.args))

\* C23: no operation emits a record of more than 0xFFF words, the most the
\* 12-bit RecordSize field holds: an operation whose record would be longer
\* returns RecordSizeTooLarge and emits no header of that record.
C23_RecordSizeLimit ==
    \A i \in DOMAIN calls :
        /\ \A k \in DOMAIN calls[i].recs :
               /\ calls[i].recs[k].bytes <= 8 * kMaxRecordSizeWords
               /\ calls[i].recs[k].RecordSize * 8 >= calls[i].recs[k].bytes
        /\ calls[i].ret = FXT_ERR_RECORD_SIZE_TOO_LARGE
           => CarryingRecords(calls[i]) = {}

\* What the sink receives, call by call, as items: the kind of the call and
\* its content (the type of a header, the string and length of bytes, the
\* value of a word).
Item(t, a, b) == [t |-> t, a |-> a, b |-> b]

ItemOf(e) ==
    IF e.val.w \in {"record", "arg"} THEN Item(e.val.w, e.val.Type, 0)
    ELSE IF e.val.w = "str" THEN Item("str", e.val.str, e.len)
    ELSE IF e.val.w = "data" THEN Item("data", e.val.u64, 0)
    ELSE Item(e.val.w, 0, 0)

Items(log) == [j \in DOMAIN log |-> ItemOf(log[j])]

\* The items of the bytes of a string and the zero bytes up to 8 bytes.
PaddedItems(str, len) ==
    <<Item("str", str, len)>> \o [j \in 1..(Pad8(len) - len) |-> Item("zero", 0, 0)]

\* The items of a String record and of a Thread record.
StringRecordItems(str) ==
    <<Item("record", RT_String, 0)>> \o PaddedItems(str, strlen(str))

ThreadRecordItems(processID, threadID) ==
    <<Item("record", RT_Thread, 0), Item("data", processID, 0),
      Item("data", threadID, 0)>>

\* The strings an argument interns, in the order name, value.
InternedBy(arg) ==
    (IF arg.name.useStringTable THEN <<arg.name.name>> ELSE <<>>)
    \o (IF arg.value.type = AT_String /\ arg.value.useStringTable
           /\ ~arg.value.hexEncode
        THEN <<arg.value.stringValue>> ELSE <<>>)

\* The strings the arguments i.. intern, in argument order.
RECURSIVE Interned(_, _)
Interned(args, i) ==
    IF i > Len(args) THEN <<>> ELSE InternedBy(args[i]) \o Interned(args, i + 1)

\* The String records of the strings k.. of a sequence, a string that
\* occurred before (it is in seen) having none.
RECURSIVE BindingItems(_, _, _)
BindingItems(strs, k, seen) ==
    IF k > Len(strs) THEN <<>>
    ELSE (IF strs[k] \in seen THEN <<>> ELSE StringRecordItems(strs[k]))
         \o BindingItems(strs, k + 1, seen \cup {strs[k]})

\* The items of an argument that is not hex-encoded: header, inline name,
\* payload.
ArgItems(arg) ==
    <<Item("arg", arg.value.type, 0)>>
    \o (IF arg.name.useStringTable THEN <<>>
        ELSE PaddedItems(arg.name.name, arg.name.nameLen))
    \o (IF arg.value.type \in TwoWordTypes THEN <<Item("data", arg.value.val, 0)>>
        ELSE IF arg.value.type = AT_String /\ ~arg.value.useStringTable
        THEN PaddedItems(arg.value.stringValue, arg.value.stringLen)
        ELSE <<>>)

RECURSIVE ArgsItems(_, _)
ArgsItems(args, i) ==
    IF i > Len(args) THEN <<>> ELSE ArgItems(args[i]) \o ArgsItems(args, i + 1)

\* The order of emission of an event whose strings and thread are new.
EventItems(call) ==
    BindingItems(<<call.category, call.name>>, 1, {})
    \o ThreadRecordItems(call.processID, call.threadID)
    \o BindingItems(Interned(call.args, 1), 1, {call.category, call.name})
    \o <<Item("record", RT_Event, 0), Item("data", call.timestamp, 0)>>
    \o ArgsItems(call.args, 1)
    \o (IF ExtraSizeInWords(call.eventType) = 1
        THEN <<Item("data", call.extraWord, 0)>> ELSE <<>>)

\* None of the strings and threads of an event is in the live slots of the
\* tables.
AllNew(call) ==
    /\ \A s \in {call.category, call.name} \cup {Interned(call.args, 1)[k] :
                                                  k \in DOMAIN Interned(call.args, 1)} :
           \A j \in 0..((IF nextStringIndex > StringTableSize
                         THEN StringTableSize ELSE nextStringIndex) - 1) :
               stringTable[j] # XXH3_64bits(s)
    /\ \A j \in 0..((IF nextThreadIndex > ThreadTableSize
                     THEN ThreadTableSize ELSE nextThreadIndex) - 1) :
           threadTable[j] # XXH3_pair(call.processID, call.threadID)

\* C24: an event whose category, name, thread and indexed strings are all
\* new and that returns 0 hands the sink, in this order: the String record of
\* the category, that of the name, the Thread record, the String records of
\* the indexed argument names and values in argument order, then the Event
\* record: header, timestamp, the arguments in caller order (header, inline
\* name with padding, payload with padding), and last the extra word if the
\* event has one.
C24_Step ==
    (/\ Len(calls') = Len(calls) + 1
     /\ NewCall.call.op = "AddEvent"
     /\ NewCall.ret = 0
     /\ NewCall.call.category # NewCall.call.name
     /\ \A k \in DOMAIN NewCall.call.args : ~NewCall.call.args[k].value.hexEncode
     /\ AllNew(NewCall.call))
    => Items(NewCall.log) = EventItems(NewCall.call)

C24_EmissionOrder == [][C24_Step]_vars

\* A counter event with indexed and inline names, indexed and inline string
\* values and scalar values was emitted on a writer as constructed.
C24_Witness ==
    /\ Len(calls) = 1
    /\ calls[1].call.op = "AddEvent"
    /\ calls[1].call.eventType = ET_Counter
    /\ calls[1].call.args = LimMixedArgs
    /\ calls[1].ret = 0
    /\ Items(calls[1].log) = EventItems(calls[1].call)
    /\ Len(ArgHeaders(calls[1].log)) = 4
    /\ calls[1].log[Len(calls[1].log)].val = Data(77)

\* Writer w alone: its first n operations run one after the other on a
\* writer as constructed and the sink of w.
RECURSIVE Alone(_, _)
Alone(w, n) ==
    IF n = 0
    THEN [m |-> Constructed(TwoGarbage[w]).m, stream |-> <<>>, rets |-> <<>>]
    ELSE LET p == Alone(w, n - 1)
             r == RunOp(OnSink(p.m, writers[w].sink, Len(p.stream)),
                        writers[w].ops[n])
         IN  [m |-> OnSink(r.m, GoodSink, 0), stream |-> p.stream \o r.m.log,
              rets |-> Append(p.rets, Returned(r))]

C26_Step ==
    /\ nextStringIndex' >= nextStringIndex
    /\ nextThreadIndex' >= nextThreadIndex
    /\ (Len(calls') = Len(calls) + 1 /\ NewCall.ret = 0
        /\ NewCall.call.op = "GetOrCreateStringIndex")
       => nextStringIndex' = nextStringIndex + (IF NewCall.log = <<>> THEN 0 ELSE 1)
    /\ (Len(calls') = Len(calls) + 1 /\ NewCall.ret = 0
        /\ NewCall.call.op = "GetOrCreateThreadIndex")
       => nextThreadIndex' = nextThreadIndex + (IF NewCall.log = <<>> THEN 0 ELSE 1)

C26_CountersNeverDecrease == [][C26_Step]_vars

\* The last call of the sink for argument k of a call that returned 0: the one
\* before the next argument header, or before the extra word of an event.
ArgEnd(c, k) ==
    IF k < Len(ArgHeaders(c.log)) THEN ArgHeaders(c.log)[k + 1] - 1
    ELSE Len(c.log) - (IF c.call.op = "AddEvent"
                       THEN ExtraSizeInWords(c.call.eventType) ELSE 0)

\* C27: for every argument emitted by an operation that returns 0, the
\* ArgumentSize field of its header is 1 + the words of the inline name + the
\* payload words of its type, and 8 times that is the number of bytes handed
\* to the sink for the argument.
C27_ArgumentSizeField ==
    \A i \in DOMAIN calls :
        (ArgsCall(calls[i]) /\ calls[i].ret = 0) =>
            /\ Len(ArgHeaders(calls[i].log)) = Len(calls[i].call.args)
            /\ \A k \in DOMAIN calls[i].call.args :
                   /\ calls[i].log[ArgHeaders(calls[i].log)[k]].val.ArgumentSize
                          = PrecomputedWords(calls[i].call.args[k])
                   /\ LogBytes(calls[i].log, ArgHeaders(calls[i].log)[k],
                               ArgEnd(calls[i], k))
                          = 8 * PrecomputedWords(calls[i].call.args[k])

\* No operation so far met a sink failure.
AllSucceeded == \A i \in DOMAIN calls : calls[i].ret = 0

\* The handles of the live slots after M misses, and the contents they hold:
\* those of the most recent min(M, 512) misses.
LiveHandles == 1..(IF numStringRecords > StringTableSize THEN StringTableSize
                   ELSE numStringRecords)

LiveContents == {strBinding[h].str : h \in LiveHandles}

\* The slots hold the most recent min(M, 512) misses, the j-th miss (from 0)
\* in slot j mod 512.
C28_Slots ==
    AllSucceeded =>
        \A h \in LiveHandles :
            /\ (strBinding[h].n - 1) % StringTableSize = h - 1
            /\ strBinding[h].n <= numStringRecords
            /\ strBinding[h].n > numStringRecords - StringTableSize
            /\ stringTable[h - 1] = XXH3_64bits(strBinding[h].str)

\* A call hits exactly when its content is among them, and a hit changes no
\* slot and no counter.
C28_Step ==
    (/\ AllSucceeded
     /\ Len(calls') = Len(calls) + 1
     /\ NewCall.call.op = "GetOrCreateStringIndex"
     /\ NewCall.ret = 0)
    => /\ NewCall.log = <<>> <=> NewCall.call.str \in LiveContents
       /\ NewCall.log = <<>>
          => /\ UNCHANGED <<stringTable, threadTable, nextStringIndex,
                            nextThreadIndex, strBinding, numStringRecords>>
             /\ strBinding[NewCall.out].str = NewCall.call.str

\* C28: from a fresh writer, after any sequence of GetOrCreateStringIndex
\* calls with M misses, the live slots hold the contents of the most recent
\* min(M, 512) misses, the j-th in slot j mod 512; a call hits exactly when
\* its content is among them, and a hit changes no slot and no counter.
C28_FirstInFirstOut == [][C28_Slots /\ C28_Slots' /\ C28_Step]_vars

InternOps == {"GetOrCreateStringIndex", "GetOrCreateThreadIndex"}

\* The first call of its sink that operation n of writer w made.
FirstCall(w, n) == writers[w].stream[Len(Alone(w, n - 1).stream) + 1]

\* The index a binding record's header binds.
BoundIndex(hdr) == IF hdr.Type = RT_String THEN hdr.StringIndex ELSE hdr.ThreadIndex

\* C29: an intern call during whose binding record the sink fails returns
\* the failure and no handle and leaves the tables and both counters as they
\* were; the next call with the same content, the sink having recovered, is
\* a miss again: it emits a binding record with the index of the failed one
\* and returns it.
C29_FailedBindingLeavesNoTrace ==
    \A w \in DOMAIN writers :
        \A n \in 1..Len(writers[w].rets) :
            (writers[w].ops[n].op \in InternOps /\ writers[w].rets[n].ret # 0)
            => /\ writers[w].rets[n] = [ret |-> writers[w].sink.err, out |-> Unset]
               /\ n = Len(writers[w].rets)
                  => /\ writers[w].m.stringTable = Alone(w, n - 1).m.stringTable
                     /\ writers[w].m.threadTable = Alone(w, n - 1).m.threadTable
                     /\ writers[w].m.nextStringIndex
                            = Alone(w, n - 1).m.nextStringIndex
                     /\ writers[w].m.nextThreadIndex
                            = Alone(w, n - 1).m.nextThreadIndex
               /\ (n < Len(writers[w].rets) /\ writers[w].ops[n + 1] = writers[w].ops[n])
                  => /\ writers[w].rets[n + 1].ret = 0
                     /\ FirstCall(w, n + 1).ret = 0
                     /\ FirstCall(w, n + 1).val.w = "record"
                     /\ FirstCall(w, n + 1).val.Type = FirstCall(w, n).val.Type
                     /\ BoundIndex(FirstCall(w, n + 1).val)
                            = BoundIndex(FirstCall(w, n).val)
                     /\ writers[w].rets[n + 1].out = BoundIndex(FirstCall(w, n).val)

\* The sink of writer 2 failed the bytes of a String record, the call
\* returned the failure, and the call was made again and returned handle 1.
C29_Witness ==
    /\ DOMAIN writers = TwoWriters
    /\ writers[2].sink.failAt = 2
    /\ Len(writers[2].rets) = 2
    /\ writers[2].ops[1].op = "GetOrCreateStringIndex"
    /\ writers[2].ops[2] = writers[2].ops[1]
    /\ writers[2].rets[1] = [ret |-> SinkError, out |-> Unset]
    /\ writers[2].rets[2] = [ret |-> 0, out |-> 1]
    /\ writers[2].m.nextStringIndex = 1

\* The codes of the input validations.
ValidationErrors ==
    {FXT_ERR_TOO_MANY_ARGS, FXT_ERR_INVALID_OUTGOING_THREAD_STATE,
     FXT_ERR_DATA_TOO_LONG, FXT_ERR_STR_TOO_LONG, FXT_ERR_ARG_NAME_TOO_LONG,
     FXT_ERR_ARG_STR_VALUE_TOO_LONG, FXT_ERR_INVALID_ARG_TYPE,
     FXT_ERR_RECORD_SIZE_TOO_LARGE}

\* C30: an operation that returns an input-validation error on a sink that
\* never failed has handed the sink complete String and Thread records only:
\* no header of another record, and a number of bytes that ends on a record
\* boundary.
C30_RejectedRecordNotEmitted ==
    \A i \in DOMAIN calls :
        (/\ calls[i].ret \in ValidationErrors
         /\ \A j \in DOMAIN calls[i].log : calls[i].log[j].ret = 0)
        => /\ CarryingRecords(calls[i]) = {}
           /\ \A k \in DOMAIN calls[i].recs :
                  calls[i].recs[k].bytes
                      = IF calls[i].recs[k].Type = RT_Thread THEN 24
                        ELSE 8 * calls[i].recs[k].RecordSize
           /\ LogBytes(calls[i].log, 1, Len(calls[i].log)) % 8 = 0

=============================================================================
